---- MODULE Spec2Model ----
(***************************************************************************)
(* A model of the reaping engine of mozilla-services/reaper: the           *)
(* dependency and ownership inference pass (allReapables), the filter and  *)
(* whitelist engine (applyFilters), the lifecycle advance and the registry *)
(* (reapInstance and its siblings), the detached event dispatch, and the   *)
(* saved-state file (SaveState, LoadState).                                *)
(*                                                                         *)
(* Text is a sequence of atoms: an atom is a separator character ("," or   *)
(* "|") or a run of characters that holds no separator.  An id is text, so *)
(* an autoscaling group named  web,blue  is <<"web", ",", "blue">>.        *)
(***************************************************************************)
EXTENDS Integers, Sequences, FiniteSets, Bags, TLC

VARIABLES
    config,             \* the configuration struct (read-only after SetConfig)
    cloud,              \* what the discovery collaborator enumerates: handle -> resource
    stateTag,           \* the reaper-state tag of each resource at the provider
    now,                \* the clock
    started,            \* Reaper.Start has been called and Stop has not
    loadDone,           \* Start has gone past its LoadState call
    savedstates,        \* var savedstates: <<region, id>> -> State
    stateFile,          \* the lines of config.StateFile
    reapables,          \* var reapables, the registry: <<region, id>> -> resource
    pc,                 \* the position of Reaper.Run
    dependency,         \* allReapables' local map of dependency marks
    isInCloudformation, \* allReapables' local map of stack marks
    instancesInASGs,    \* allReapables' local map of group members
    owned,              \* allReapables' owned multimap: owner -> resources
    unowned,            \* allReapables' unowned list
    cycle,              \* reap's locals after filtering
    pending,            \* the detached dispatch goroutines not yet run
    lastDispatch,       \* what the last dispatch goroutine attempted
    acted,              \* the keys an owner action was taken on
    api,                \* the last call of Terminate, ForceStop or Stop by region and id
    gone,               \* the resources the provider lists no longer
    starter,            \* the position of Reaper.Start, goroutine by goroutine
    cronOn,             \* r.Cron is started and not stopped
    runs,               \* the Run goroutines, in the order they were started
    detached,           \* the detached goroutines of reap that have not returned
    failing,            \* the owners and resources whose event dispatch returns an error
    writable,           \* the state file can be opened for writing
    link,               \* the link that was built last
    streams,            \* kind -> the producer of the kind and its stream
    stage,              \* the loop of allReapables that is under way
    posted,             \* the total counts that were posted, each with its number
    schedule            \* the crons that Run has made and started, the last is
                        \* the one the package variable points to

vars == <<config, cloud, stateTag, now, started, loadDone, savedstates, stateFile,
          reapables, pc, dependency, isInCloudformation, instancesInASGs, owned,
          unowned, cycle, pending, lastDispatch, acted, api, gone,
          starter, cronOn, runs, detached, failing, writable, link,
          streams, stage, posted, schedule>>

(***************************************************************************)
(* Bounds of the model.                                                    *)
(***************************************************************************)
MaxTime == 7
MaxPending == 1
\* The Run goroutines of a process.
MaxRuns == 3

(***************************************************************************)
(* Text.                                                                   *)
(***************************************************************************)
RECURSIVE Split(_, _)
Split(text, sep) ==
    IF \A i \in 1..Len(text) : text[i] # sep
    THEN <<text>>
    ELSE LET i == CHOOSE k \in 1..Len(text) :
                      text[k] = sep /\ \A j \in 1..(k - 1) : text[j] # sep
         IN  <<SubSeq(text, 1, i - 1)>> \o Split(SubSeq(text, i + 1, Len(text)), sep)

\* The timestamps a run can print: until is at most now plus one duration.
Timestamps == 0..(MaxTime + 4)

Itoa(n) == ToString(n)

IsNumber(field) == Len(field) = 1 /\ \E n \in Timestamps : Itoa(n) = field[1]

Atoi(field) == CHOOSE n \in Timestamps : Itoa(n) = field[1]

(***************************************************************************)
(* The lifecycle state machine (package state, and Resource.IncrementState). *)
(***************************************************************************)
Ignore == "IGNORE"
First == "FIRST"
Second == "SECOND"
Third == "THIRD"
Final == "FINAL"
StateNames == {Ignore, First, Second, Third, Final}

\* config.States.FirstStateDuration and its siblings; Final has none.
StateDuration(name) ==
    CASE name = First -> config.FirstStateDuration
      [] name = Second -> config.SecondStateDuration
      [] name = Third -> config.ThirdStateDuration
      [] OTHER -> 0

NewStateWithUntilAndState(name, since, until) ==
    [state |-> name, since |-> since, until |-> until]

NewState(t) == NewStateWithUntilAndState(First, t, t + StateDuration(First))

\* State.String
String(s) == <<s.state, "|", Itoa(s.since), "|", Itoa(s.until)>>

\* state.NewStateWithTag: text outside the grammar gives a fresh state.
NewStateWithTag(tag, t) ==
    LET f == Split(tag, "|")
    IN  IF /\ Len(f) = 3
           /\ Len(f[1]) = 1
           /\ f[1][1] \in StateNames
           /\ IsNumber(f[2])
           /\ IsNumber(f[3])
        THEN NewStateWithUntilAndState(f[1][1], Atoi(f[2]), Atoi(f[3]))
        ELSE NewState(t)

NextState(name) ==
    CASE name = Ignore -> First
      [] name = First -> Second
      [] name = Second -> Third
      [] name = Third -> Final
      [] OTHER -> Final

\* Resource.IncrementState: <<the new state, whether it changed>>
IncrementState(s, t) ==
    IF s.state = Final
    THEN <<s, FALSE>>
    ELSE <<NewStateWithUntilAndState(NextState(s.state), t,
                                     t + StateDuration(NextState(s.state))), TRUE>>

\* setIgnore(duration, now)
SetIgnore(s, d, t) == NewStateWithUntilAndState(Ignore, t, t + d)

Rank(name) ==
    CASE name = Ignore -> 0
      [] name = First -> 1
      [] name = Second -> 2
      [] name = Third -> 3
      [] OTHER -> 4

(***************************************************************************)
(* The resources the discovery collaborator enumerates, and the            *)
(* configuration.                                                          *)
(***************************************************************************)
Cloudformation == "Cloudformation"
AutoScalingGroup == "AutoScalingGroup"
Instance == "Instance"
SecurityGroup == "SecurityGroup"
Volume == "Volume"
Kinds == {Cloudformation, AutoScalingGroup, Instance, SecurityGroup, Volume}

East == <<"us-east-1">>
West == <<"us-west-2">>
\* config.AWS.Regions
Regions == {East, West}

OwnerTag == "Owner"
WhitelistTag == "REAPER_SPARE_ME"
StackTag == "aws:cloudformation:stack-name"
NoTag == <<>>
NoOwner == "(unowned)"
ScalerTag == "REAPER_AUTOSCALER"

\* The handles of the model's resources, in the order their streams yield them.
ResOrder == <<"cf", "cf2", "asg", "asg2", "i", "sg", "sg2", "v">>

Key(r) == <<r.region, r.id>>

\* The owner and whitelist tags of a resource.
TagsOf(owner, whitelisted, value) ==
    [k \in (IF owner = NoOwner THEN {} ELSE {OwnerTag})
             \cup (IF whitelisted THEN {WhitelistTag} ELSE {}) |->
        IF k = OwnerTag THEN owner ELSE value]

Resource(kind, id, name, tags) ==
    [kind |-> kind, region |-> East, id |-> id, name |-> name, tags |-> tags,
     size |-> 0, instances |-> {}, securityGroups |-> {}, resources |-> {},
     attached |-> {}]

I123 == <<"i-123">>
Asg1 == <<"asg-1">>
WebBlue == <<"web", ",", "blue">>
Sg1 == <<"sg-1">>
SgName == <<"web-sg">>
Vol1 == <<"vol-1">>
Stack1 == <<"stack-1">>

\* One stack, one group, one instance, one security group and one volume.
\* owner: handle -> owner; wl: the whitelisted handles; d: what refers to what.
World(owner, wl, d) ==
    [h \in {"cf", "asg", "i", "sg", "v"} |->
        LET tags == TagsOf(owner[h], h \in wl, IF h = "sg" THEN "" ELSE "true")
        IN  CASE h = "cf" ->
                   [Resource(Cloudformation, Stack1, Stack1, tags)
                       EXCEPT !.resources = d.declares]
              [] h = "asg" ->
                   [Resource(AutoScalingGroup, Asg1, Asg1, tags)
                       EXCEPT !.size = 2, !.instances = d.members]
              [] h = "i" ->
                   [Resource(Instance, I123, <<"worker">>, tags)
                       EXCEPT !.securityGroups = d.sgRef]
              [] h = "sg" -> Resource(SecurityGroup, Sg1, SgName, tags)
              [] OTHER ->
                   [Resource(Volume, Vol1, Vol1, tags)
                       EXCEPT !.attached = IF d.attached THEN {I123} ELSE {}]]

Alice == "alice@example.com"
Bob == "bob@example.com"

OwnerProfiles ==
    { [cf |-> Bob, asg |-> Alice, i |-> Alice, sg |-> Bob, v |-> NoOwner],
      [cf |-> Bob, asg |-> Alice, i |-> Alice, sg |-> NoOwner, v |-> NoOwner],
      [cf |-> Bob, asg |-> NoOwner, i |-> Alice, sg |-> Bob, v |-> NoOwner] }

WhitelistSets == { {}, {"cf"}, {"i"}, {"cf", "sg"} }

\* sgRef: the security groups of the instance, each an id and a name; a
\* reference can carry an id or a name that no discovered group has.
DependencyProfiles ==
    {[declares |-> {}, members |-> {}, sgRef |-> {}, attached |-> FALSE],
     [declares |-> {}, members |-> {}, sgRef |-> {<<Sg1, SgName>>}, attached |-> FALSE],
     [declares |-> {I123}, members |-> {}, sgRef |-> {}, attached |-> TRUE],
     [declares |-> {}, members |-> {I123}, sgRef |-> {<<Sg1, SgName>>}, attached |-> TRUE],
     [declares |-> {I123}, members |-> {I123}, sgRef |-> {}, attached |-> FALSE],
     [declares |-> {}, members |-> {}, sgRef |-> {<<Sg1, <<"default">>>>}, attached |-> FALSE],
     [declares |-> {}, members |-> {}, sgRef |-> {<<<<"sg-0">>, SgName>>}, attached |-> FALSE]}

NewFilter(function, arguments) == [function |-> function, arguments |-> arguments]

NoGroups == <<>>
AllKinds(groups) == [k \in Kinds |-> groups]

\* config.<Kind>.FilterGroups: kind -> (group name -> the group's filters)
FilterProfiles ==
    { AllKinds(NoGroups),
      AllKinds([n \in {"default"} |-> <<>>]),
      [AllKinds(NoGroups) EXCEPT
          ![AutoScalingGroup] = [n \in {"big"} |-> <<NewFilter("SizeGreaterThan", <<"0">>)>>]],
      AllKinds([n \in {"orphan"} |-> <<NewFilter("IsDependency", <<"false">>)>>]),
      AllKinds([n \in {"a", "b"} |->
                  IF n = "a"
                  THEN <<NewFilter("IsDependency", <<"false">>),
                         NewFilter("InCloudformation", <<"false">>)>>
                  ELSE <<NewFilter("Tagged", <<OwnerTag>>)>>]),
      [AllKinds(NoGroups) EXCEPT
          ![AutoScalingGroup] = [n \in {"bad"} |-> <<NewFilter("Tagged", <<>>)>>]],
      [AllKinds([n \in {"b"} |-> <<NewFilter("Tagged", <<OwnerTag>>)>>]) EXCEPT
          ![AutoScalingGroup] = [n \in {"bad"} |-> <<NewFilter("Tagged", <<>>)>>]] }

Config(groups, load, file) ==
    [FilterGroups |-> groups,
     Enabled |-> [k \in Kinds |-> TRUE],
     WhitelistTag |-> WhitelistTag,
     LoadFromStateFile |-> load,
     StateFile |-> file,
     FirstStateDuration |-> 1,
     SecondStateDuration |-> 2,
     ThirdStateDuration |-> 1]

\* config.<Kind>.Enabled: the kinds that are not reported
DisabledSets == { {Instance}, {Cloudformation, AutoScalingGroup} }

Disable(cfg, kinds) == [cfg EXCEPT !.Enabled = [k \in Kinds |-> k \notin kinds]]

(***************************************************************************)
(* A resource as one reap cycle holds it: the snapshot's handle and the    *)
(* fields the cycle sets.                                                  *)
(***************************************************************************)
\* Resource.Tagged
Tagged(r, key) == key \in DOMAIN r.tags

\* Resource.Owner
Owner(o) ==
    IF Tagged(cloud[o.res], OwnerTag) THEN cloud[o.res].tags[OwnerTag] ELSE NoOwner

\* NewAutoScalingGroup; the constructors of the other kinds follow it.
NewAutoScalingGroup(h) ==
    [res |-> h,
     dependency |-> Tagged(cloud[h], StackTag),
     isInCloudformation |-> Tagged(cloud[h], StackTag),
     autoScaled |-> FALSE,
     state |-> IF stateTag[h] # NoTag
               THEN NewStateWithTag(stateTag[h], now)
               ELSE NewState(now),
     updated |-> FALSE]

KeyOf(o) == Key(cloud[o.res])

HandlesOf(kind) ==
    SelectSeq(ResOrder,
              LAMBDA h : h \in DOMAIN cloud \ gone /\ cloud[h].kind = kind)

\* getInstances and its siblings: the stream of one kind, each resource with
\* its saved state when savedstates holds one.
getInstances(kind) ==
    [i \in 1..Len(HandlesOf(kind)) |->
        LET o == NewAutoScalingGroup(HandlesOf(kind)[i])
        IN  IF KeyOf(o) \in DOMAIN savedstates
            THEN [o EXCEPT !.state = savedstates[KeyOf(o)]]
            ELSE o]

(***************************************************************************)
(* The filter and whitelist engine.                                        *)
(***************************************************************************)
\* Filter.Int64Value, Filter.BoolValue
HasInt64(a) == Len(a) > 0 /\ \E n \in 0..9 : Itoa(n) = a[1]
Int64Value(a) == CHOOSE n \in 0..9 : Itoa(n) = a[1]
HasBool(a) == Len(a) > 0 /\ a[1] \in {"true", "false"}
BoolValue(a) == a[1] = "true"

Verdict(b) == IF b THEN "match" ELSE "nomatch"

\* AutoScalingGroup.Filter: "panic" is the index out of range of Arguments[0]
Filter(o, f) ==
    LET r == cloud[o.res]
        a == f.arguments
        fn == f.function
    IN  CASE fn = "SizeGreaterThan" ->
               Verdict(HasInt64(a) /\ r.kind = AutoScalingGroup /\ r.size > Int64Value(a))
          [] fn = "SizeLessThan" ->
               Verdict(HasInt64(a) /\ r.kind = AutoScalingGroup /\ r.size < Int64Value(a))
          [] fn = "SizeEqualTo" ->
               Verdict(HasInt64(a) /\ r.kind = AutoScalingGroup /\ r.size = Int64Value(a))
          [] fn = "InCloudformation" ->
               Verdict(HasBool(a) /\ o.isInCloudformation = BoolValue(a))
          [] fn = "IsDependency" ->
               Verdict(HasBool(a) /\ o.dependency = BoolValue(a))
          [] fn = "Region" ->
               Verdict(\E i \in 1..Len(a) : <<a[i]>> = r.region)
          [] fn = "NotRegion" ->
               Verdict(~ \E i \in 1..Len(a) : <<a[i]>> = r.region)
          [] fn = "Tagged" ->
               IF Len(a) = 0 THEN "panic" ELSE Verdict(Tagged(r, a[1]))
          [] fn = "NotTagged" ->
               IF Len(a) = 0 THEN "panic" ELSE Verdict(~ Tagged(r, a[1]))
          [] fn = "ReaperState" ->
               IF Len(a) = 0 THEN "panic" ELSE Verdict(o.state.state = a[1])
          [] fn = "NotReaperState" ->
               IF Len(a) = 0 THEN "panic" ELSE Verdict(o.state.state # a[1])
          [] OTHER -> "nomatch"

\* filters.ApplyFilters: every filter of the group, stopping at the first failure
RECURSIVE ApplyFilters(_, _)
ApplyFilters(o, group) ==
    IF Len(group) = 0 THEN "match"
    ELSE LET x == Filter(o, Head(group))
         IN  IF x = "match" THEN ApplyFilters(o, Tail(group)) ELSE x

\* A whitelist check that asks for the value of the tag as well.
WhitelistedTrue(o) ==
    /\ Tagged(cloud[o.res], config.WhitelistTag)
    /\ cloud[o.res].tags[config.WhitelistTag] = "true"

\* applyFilters, the body of the loop: the whitelist check
Whitelisted(o) == Filter(o, NewFilter("Tagged", <<config.WhitelistTag>>)) = "match"

\* applyFilters, the body of the loop for one filterable
Matched(o) ==
    LET groups == config.FilterGroups[cloud[o.res].kind]
        results == {ApplyFilters(o, groups[n]) : n \in DOMAIN groups}
        noFilters == \A n \in DOMAIN groups : Len(groups[n]) = 0
    IN  IF "panic" \in results THEN "panic"
        ELSE IF Whitelisted(o) THEN "nomatch"
        ELSE Verdict(DOMAIN groups = {} \/ noFilters \/ "match" \in results)

\* applyFilters: a panic is recovered by the function's deferred handler, which
\* returns no resource at all
applyFilters(filterables) ==
    IF \E i \in 1..Len(filterables) : Matched(filterables[i]) = "panic"
    THEN <<>>
    ELSE SelectSeq(filterables, LAMBDA o : Matched(o) = "match")

(***************************************************************************)
(* allReapables: the dependency and ownership inference pass.  The five    *)
(* streams are drained one after the other; acc holds the pass's locals.   *)
(***************************************************************************)
\* A grouping by owner that does not ask whether the kind is enabled.
GroupByOwnerAlways(acc, o) ==
    IF Owner(o) # NoOwner
    THEN [acc EXCEPT !.owned =
             [w \in DOMAIN acc.owned \cup {Owner(o)} |->
                 IF w = Owner(o)
                 THEN (IF w \in DOMAIN acc.owned THEN acc.owned[w] ELSE <<>>) \o <<o>>
                 ELSE acc.owned[w]]]
    ELSE [acc EXCEPT !.unowned = Append(@, o)]

\* allReapables, "group ... by owner": appended when the kind is enabled
GroupByOwner(acc, o) ==
    IF ~ config.Enabled[cloud[o.res].kind] THEN acc
    ELSE IF Owner(o) # NoOwner
    THEN [acc EXCEPT !.owned =
             [w \in DOMAIN acc.owned \cup {Owner(o)} |->
                 IF w = Owner(o)
                 THEN (IF w \in DOMAIN acc.owned THEN acc.owned[w] ELSE <<>>) \o <<o>>
                 ELSE acc.owned[w]]]
    ELSE [acc EXCEPT !.unowned = Append(@, o)]

\* A loop over getCloudformations() that records what a stack declares as part
\* of a stack and not as a dependency.
MarkCloudformationStackOnly(acc, c) ==
    LET marks == {<<cloud[c.res].region, p>> : p \in cloud[c.res].resources}
    IN  GroupByOwner([acc EXCEPT !.isInCloudformation = @ \cup marks], c)

\* allReapables, the body of the loop over getCloudformations()
MarkCloudformation(acc, c) ==
    LET marks == {<<cloud[c.res].region, p>> : p \in cloud[c.res].resources}
    IN  GroupByOwner([acc EXCEPT !.dependency = @ \cup marks,
                                 !.isInCloudformation = @ \cup marks], c)

\* A loop over getAutoScalingGroups() that records the members as dependencies
\* and not as instances in a group.
MarkAutoScalingGroupOnly(acc, a) ==
    LET r == cloud[a.res]
        keys == {<<r.region, r.id>>, <<r.region, r.name>>}
        members == {<<r.region, m>> : m \in r.instances}
        marked == [a EXCEPT
                      !.isInCloudformation = @ \/ keys \cap acc.isInCloudformation # {},
                      !.dependency = @ \/ keys \cap acc.dependency # {}]
    IN  GroupByOwner([acc EXCEPT !.dependency = @ \cup members], marked)

\* allReapables, the body of the loop over getAutoScalingGroups()
MarkAutoScalingGroup(acc, a) ==
    LET r == cloud[a.res]
        keys == {<<r.region, r.id>>, <<r.region, r.name>>}
        members == {<<r.region, m>> : m \in r.instances}
        marked == [a EXCEPT
                      !.isInCloudformation = @ \/ keys \cap acc.isInCloudformation # {},
                      !.dependency = @ \/ keys \cap acc.dependency # {}]
    IN  GroupByOwner([acc EXCEPT !.instancesInASGs = @ \cup members,
                                 !.dependency = @ \cup members], marked)

\* A loop over getInstances() that does not record the security groups in use.
MarkInstanceAlone(acc, i) ==
    LET r == cloud[i.res]
        marked == [i EXCEPT
                      !.dependency = @ \/ Key(r) \in acc.dependency,
                      !.isInCloudformation = @ \/ Key(r) \in acc.isInCloudformation,
                      !.autoScaled = @ \/ Key(r) \in acc.instancesInASGs]
    IN  GroupByOwner(acc, marked)

\* allReapables, the body of the loop over getInstances()
MarkInstance(acc, i) ==
    LET r == cloud[i.res]
        inUse == {<<r.region, sg[1]>> : sg \in r.securityGroups}
                     \cup {<<r.region, sg[2]>> : sg \in r.securityGroups}
        dep == acc.dependency \cup inUse
        marked == [i EXCEPT
                      !.dependency = @ \/ Key(r) \in dep,
                      !.isInCloudformation = @ \/ Key(r) \in acc.isInCloudformation,
                      !.autoScaled = @ \/ Key(r) \in acc.instancesInASGs]
    IN  GroupByOwner([acc EXCEPT !.dependency = dep], marked)

\* allReapables, the body of the loop over getSecurityGroups()
MarkSecurityGroup(acc, s) ==
    LET r == cloud[s.res]
        marked == [s EXCEPT
                      !.isInCloudformation = @ \/ Key(r) \in acc.isInCloudformation,
                      !.dependency = @ \/ Key(r) \in acc.dependency
                                       \/ <<r.region, r.name>> \in acc.dependency]
    IN  GroupByOwner(acc, marked)

\* allReapables, the body of the loop over getVolumes()
MarkVolume(acc, v) ==
    LET r == cloud[v.res]
        marked == [v EXCEPT
                      !.isInCloudformation = @ \/ Key(r) \in acc.isInCloudformation,
                      !.dependency = @ \/ Key(r) \in acc.dependency \/ r.attached # {}]
    IN  GroupByOwner(acc, marked)

Mark(acc, o, kind) ==
    CASE kind = Cloudformation -> MarkCloudformation(acc, o)
      [] kind = AutoScalingGroup -> MarkAutoScalingGroup(acc, o)
      [] kind = Instance -> MarkInstance(acc, o)
      [] kind = SecurityGroup -> MarkSecurityGroup(acc, o)
      [] OTHER -> MarkVolume(acc, o)

RECURSIVE Drain(_, _, _)
Drain(stream, acc, kind) ==
    IF Len(stream) = 0 THEN acc
    ELSE Drain(Tail(stream), Mark(acc, Head(stream), kind), kind)

NoCycle == [filteredOwned |-> <<>>, filteredUnowned |-> <<>>, singles |-> <<>>]
NoDispatch ==
    [filteredOwned |-> <<>>, filteredUnowned |-> <<>>, singles |-> <<>>,
     batches |-> <<>>, events |-> <<>>, logged |-> <<>>, statistics |-> {}]

\* The part of the state that is not the Reaper's: the configuration, the
\* provider's snapshots and what it lists, and the last call by region and id.
Fixed ==
    UNCHANGED <<config, cloud, api, gone, starter, cronOn, runs, detached,
                failing, writable, link, streams, stage, posted, schedule>>

NoLocals ==
    [dependency |-> {}, isInCloudformation |-> {}, instancesInASGs |-> {},
     owned |-> <<>>, unowned |-> <<>>]

\* allReapables: the five loops, one after the other
allReapables ==
    LET stacks == Drain(getInstances(Cloudformation), NoLocals, Cloudformation)
        groups == Drain(getInstances(AutoScalingGroup), stacks, AutoScalingGroup)
        instances == Drain(getInstances(Instance), groups, Instance)
        securitygroups == Drain(getInstances(SecurityGroup), instances, SecurityGroup)
    IN  Drain(getInstances(Volume), securitygroups, Volume)

\* Reaper.Run and Reaper.reap up to the return of allReapables
RunAllReapables ==
    /\ started
    /\ pc = "idle"
    /\ pc' = "filter"
    /\ dependency' = allReapables.dependency
    /\ isInCloudformation' = allReapables.isInCloudformation
    /\ instancesInASGs' = allReapables.instancesInASGs
    /\ owned' = allReapables.owned
    /\ unowned' = allReapables.unowned
    /\ cycle' = NoCycle
    /\ Fixed
    /\ UNCHANGED <<stateTag, now, started, loadDone, savedstates, stateFile,
                   reapables, pending, lastDispatch, acted>>

(***************************************************************************)
(* Reaper.reap after allReapables, and Reaper.Run after reap.              *)
(***************************************************************************)
RECURSIVE SetToSeq(_)
SetToSeq(S) ==
    IF S = {} THEN <<>>
    ELSE LET x == CHOOSE y \in S : TRUE IN <<x>> \o SetToSeq(S \ {x})

RECURSIVE Flatten(_)
Flatten(seqs) == IF Len(seqs) = 0 THEN <<>> ELSE Head(seqs) \o Flatten(Tail(seqs))

\* The buckets of a multimap, one after the other.
Buckets(m) == Flatten([i \in 1..Cardinality(DOMAIN m) |-> m[SetToSeq(DOMAIN m)[i]]])

\* Reaper.reap, the loop over owned and the filtering of unowned
ReapApplyFilters ==
    /\ started
    /\ pc = "filter"
    /\ LET results == [w \in DOMAIN owned |-> applyFilters(owned[w])]
           alone == {w \in DOMAIN owned : Len(results[w]) = 1}
           singles == Buckets([w \in alone |-> results[w]])
       IN  cycle' = [filteredOwned |-> [w \in DOMAIN owned \ alone |-> results[w]],
                     filteredUnowned |-> applyFilters(unowned \o singles),
                     singles |-> singles]
    /\ pc' = "reap"
    /\ dependency' = {}
    /\ isInCloudformation' = {}
    /\ instancesInASGs' = {}
    /\ owned' = <<>>
    /\ unowned' = <<>>
    /\ Fixed
    /\ UNCHANGED <<stateTag, now, started, loadDone, savedstates, stateFile,
                   reapables, pending, lastDispatch, acted>>

\* A reap that also acts at the very time the state runs out.
reapInstanceAtUntil(o) ==
    IF now >= o.state.until
    THEN [o EXCEPT !.state = IncrementState(o.state, now)[1],
                   !.updated = IncrementState(o.state, now)[2]]
    ELSE o

\* reapInstance and its siblings, the update of the internal state
reapInstance(o) ==
    IF now > o.state.until
    THEN [o EXCEPT !.state = IncrementState(o.state, now)[1],
                   !.updated = IncrementState(o.state, now)[2]]
    ELSE o

\* A registry that is made anew of the survivors of each cycle.
RECURSIVE PutAllAnew(_, _)
PutAllAnew(registry, filtered) ==
    IF Len(filtered) = 0 THEN <<>>
    ELSE LET rest == PutAllAnew(registry, Tail(filtered))
             o == Head(filtered)
         IN  [k \in DOMAIN rest \cup {Key(cloud[o.res])} |->
                 IF k = Key(cloud[o.res]) THEN o ELSE rest[k]]

\* reapables.Put
Put(registry, o) ==
    [k \in DOMAIN registry \cup {KeyOf(o)} |-> IF k = KeyOf(o) THEN o ELSE registry[k]]

\* A loop over filtered that ends before the last resource.
RECURSIVE PutAllButLast(_, _)
PutAllButLast(registry, filtered) ==
    IF Len(filtered) <= 1 THEN registry
    ELSE PutAllButLast(Put(registry, Head(filtered)), Tail(filtered))

\* Reaper.reap, the loop over filtered: reapables.Put of each resource
RECURSIVE PutAll(_, _)
PutAll(registry, filtered) ==
    IF Len(filtered) = 0 THEN registry
    ELSE PutAll(Put(registry, Head(filtered)), Tail(filtered))

Reaped(filtered) == [i \in 1..Len(filtered) |-> reapInstance(filtered[i])]

\* Reaper.reap, the loop over filtered and the start of the dispatch goroutine
ReapFiltered ==
    /\ started
    /\ pc = "reap"
    /\ Len(pending) < MaxPending
    /\ LET fo == [w \in DOMAIN cycle.filteredOwned |-> Reaped(cycle.filteredOwned[w])]
           fu == Reaped(cycle.filteredUnowned)
       IN  /\ reapables' = PutAll(reapables, Buckets(fo) \o fu)
           /\ pending' = Append(pending, [cycle EXCEPT !.filteredOwned = fo,
                                                       !.filteredUnowned = fu])
    /\ cycle' = NoCycle
    /\ pc' = "save"
    /\ Fixed
    /\ UNCHANGED <<stateTag, now, started, loadDone, savedstates, stateFile,
                   dependency, isInCloudformation, instancesInASGs, owned, unowned,
                   lastDispatch, acted>>

\* Reaper.SaveState, one line of the file
SaveStateLine(o) ==
    cloud[o.res].region \o <<",">> \o cloud[o.res].id \o <<",">> \o String(o.state)

\* Reaper.SaveState
SaveState(registry) ==
    [i \in 1..Cardinality(DOMAIN registry) |->
        SaveStateLine(registry[SetToSeq(DOMAIN registry)[i]])]

\* A Run whose SaveState opens the file without truncating it.
RunSaveStateAppending ==
    /\ started
    /\ pc = "save"
    /\ stateFile' = IF config.StateFile /\ writable
                    THEN stateFile \o SaveState(reapables)
                    ELSE stateFile
    /\ pc' = "idle"
    /\ Fixed
    /\ UNCHANGED <<stateTag, now, started, loadDone, savedstates, reapables,
                   dependency, isInCloudformation, instancesInASGs, owned, unowned,
                   cycle, pending, lastDispatch, acted>>

\* Reaper.Run after reap: SaveState when a state file is configured; a file
\* that cannot be opened is logged and left as it is
RunSaveState ==
    /\ started
    /\ pc = "save"
    /\ stateFile' = IF config.StateFile /\ writable
                    THEN SaveState(reapables)
                    ELSE stateFile
    /\ pc' = "idle"
    /\ Fixed
    /\ UNCHANGED <<stateTag, now, started, loadDone, savedstates, reapables,
                   dependency, isInCloudformation, instancesInASGs, owned, unowned,
                   cycle, pending, lastDispatch, acted>>

(***************************************************************************)
(* The detached dispatch goroutine of reap, and the Tagger's Save.         *)
(***************************************************************************)
\* The orders in which a range over a map can yield its keys.
Orders(S) ==
    {f \in [1..Cardinality(S) -> S] :
        \A i, j \in 1..Cardinality(S) : i # j => f[i] # f[j]}

\* AutoScalingGroup.Save: the tag gets the string of the resource's own state
Save(tags, o) == [tags EXCEPT ![o.res] = String(o.state)]

RECURSIVE SaveAll(_, _)
SaveAll(tags, sent) ==
    IF Len(sent) = 0 THEN tags ELSE SaveAll(Save(tags, Head(sent)), Tail(sent))

\* The resources of a list, by the handle the provider knows them by.
Handles(list) == [j \in 1..Len(list) |-> list[j].res]

\* Reaper.reap, the first goroutine: the batch events of the owners in the
\* order the map yields them, up to the first empty bucket, then the events of
\* the unowned resources
BatchEvents(job, order) ==
    LET empty == {j \in 1..Len(order) : Len(job.filteredOwned[order[j]]) < 1}
        last == IF empty = {}
                THEN Len(order)
                ELSE (CHOOSE j \in empty : \A l \in empty : j <= l) - 1
    IN  [j \in 1..last |->
            [owner |-> order[j], resources |-> job.filteredOwned[order[j]]]]

\* A loop over the events that ends at the first error.
RECURSIVE DispatchedUntilError(_, _)
DispatchedUntilError(targets, bad) ==
    IF Len(targets) = 0 THEN [attempted |-> <<>>, logged |-> <<>>]
    ELSE IF Head(targets) \in bad
         THEN [attempted |-> <<Head(targets)>>, logged |-> <<Head(targets)>>]
         ELSE LET rest == DispatchedUntilError(Tail(targets), bad)
              IN  [attempted |-> <<Head(targets)>> \o rest.attempted,
                   logged |-> rest.logged]

\* Reaper.reap, the loops of the first goroutine: each event is dispatched,
\* an error is logged, and the loop goes on
RECURSIVE Dispatched(_, _)
Dispatched(targets, bad) ==
    IF Len(targets) = 0 THEN [attempted |-> <<>>, logged |-> <<>>]
    ELSE LET rest == Dispatched(Tail(targets), bad)
         IN  [attempted |-> <<Head(targets)>> \o rest.attempted,
              logged |-> (IF Head(targets) \in bad THEN <<Head(targets)>> ELSE <<>>)
                            \o rest.logged]

\* The kinds whose filtered count the second goroutine posts, under the name
\* of the statistic.
FilteredStatistic ==
    [k \in {Instance, AutoScalingGroup, Cloudformation, SecurityGroup} |->
        CASE k = Instance -> "reaper.instances.filtered"
          [] k = AutoScalingGroup -> "reaper.asgs.filtered"
          [] k = Cloudformation -> "reaper.cloudformations.filtered"
          [] OTHER -> "reaper.securitygroups.filtered"]

\* Reaper.reap, the sums of the loop over filtered: kind and region -> count
FilteredSums(filtered) ==
    [p \in {<<cloud[filtered[j].res].kind, cloud[filtered[j].res].region>> :
               j \in 1..Len(filtered)} |->
        Cardinality({j \in 1..Len(filtered) :
                        <<cloud[filtered[j].res].kind, cloud[filtered[j].res].region>> = p})]

\* Reaper.reap, the second goroutine: one statistic for each region of each of
\* the four sums it ranges over
Statistics(sums) ==
    {[kind |-> p[1], name |-> FilteredStatistic[p[1]], region |-> p[2],
      value |-> sums[p]] :
        p \in {q \in DOMAIN sums : q[1] \in DOMAIN FilteredStatistic}}

Dispatch ==
    /\ started
    /\ \E i \in 1..Len(pending) :
         \E order \in Orders(DOMAIN pending[i].filteredOwned) :
            LET job == pending[i]
                all == BatchEvents(job, order)
                owners == Dispatched([j \in 1..Len(all) |-> all[j].owner], failing)
                batches == SubSeq(all, 1, Len(owners.attempted))
                alone == Dispatched(Handles(job.filteredUnowned), failing)
                sent == Flatten([j \in 1..Len(batches) |-> batches[j].resources])
                            \o SubSeq(job.filteredUnowned, 1, Len(alone.attempted))
            IN  /\ lastDispatch' =
                      [filteredOwned |-> [w \in DOMAIN job.filteredOwned |->
                                             Handles(job.filteredOwned[w])],
                       filteredUnowned |-> Handles(job.filteredUnowned),
                       singles |-> Handles(job.singles),
                       batches |-> [j \in 1..Len(batches) |->
                                       [owner |-> batches[j].owner,
                                        resources |-> Handles(batches[j].resources)]],
                       events |-> alone.attempted,
                       logged |-> owners.logged \o alone.logged,
                       statistics |-> Statistics(FilteredSums(
                                         Buckets(job.filteredOwned) \o job.filteredUnowned))]
                /\ stateTag' = SaveAll(stateTag, sent)
                /\ pending' = [j \in 1..(Len(pending) - 1) |->
                                  IF j < i THEN pending[j] ELSE pending[j + 1]]
    /\ Fixed
    /\ UNCHANGED <<now, started, loadDone, savedstates, stateFile, reapables, pc,
                   dependency, isInCloudformation, instancesInASGs, owned, unowned,
                   cycle, acted>>

(***************************************************************************)
(* The clock, the owner's ignore link, and the life of the process.        *)
(***************************************************************************)
\* A unit of time is long against a dispatch and against the reading of the
\* state file: neither is under way when the clock strikes.
Tick ==
    /\ pc = "idle"
    /\ now < MaxTime
    /\ pending = <<>>
    /\ started => loadDone
    /\ now' = now + 1
    /\ Fixed
    /\ UNCHANGED <<stateTag, started, loadDone, savedstates, stateFile, reapables, pc,
                   dependency, isInCloudformation, instancesInASGs, owned, unowned,
                   cycle, pending, lastDispatch, acted>>

\* The delays of the ignore links of an event.
IgnoreDurations == {2}

\* The resources of the last events: their owners hold the links.
Notified ==
    {lastDispatch.events[j] : j \in 1..Len(lastDispatch.events)}
        \cup UNION {{lastDispatch.batches[j].resources[l] :
                        l \in 1..Len(lastDispatch.batches[j].resources)} :
                    j \in 1..Len(lastDispatch.batches)}

\* The action endpoint on an ignore token: the registry's resource gets the
\* Ignore state, which is saved to its tag.  The dispatch goroutines hold the
\* same resource, not a copy.  An owner follows one link of a resource.
IgnoreAction ==
    /\ started
    /\ \E k \in DOMAIN reapables \ acted : \E d \in IgnoreDurations :
         LET old == reapables[k]
             new == [old EXCEPT !.state = SetIgnore(@, d, now)]
             Swap(list) == [j \in 1..Len(list) |-> IF list[j] = old THEN new ELSE list[j]]
         IN  /\ reapables' = [reapables EXCEPT ![k] = new]
             /\ stateTag' = Save(stateTag, new)
             /\ pending' = [i \in 1..Len(pending) |->
                   [filteredOwned |-> [w \in DOMAIN pending[i].filteredOwned |->
                                          Swap(pending[i].filteredOwned[w])],
                    filteredUnowned |-> Swap(pending[i].filteredUnowned),
                    singles |-> pending[i].singles]]
             /\ old.res \in Notified
             /\ acted' = acted \cup {k}
    /\ Fixed
    /\ UNCHANGED <<now, started, loadDone, savedstates, stateFile, pc,
                   dependency, isInCloudformation, instancesInASGs, owned, unowned,
                   cycle, lastDispatch>>

\* A LoadState that gives up at the first line of another length.
RECURSIVE LoadStateUntilMalformed(_, _)
LoadStateUntilMalformed(lines, saved) ==
    IF Len(lines) = 0 THEN [savedstates |-> saved, panicked |-> FALSE]
    ELSE LET line == Split(Head(lines), ",")
         IN  IF Len(line) # 3 THEN [savedstates |-> saved, panicked |-> FALSE]
             ELSE IF line[1] \notin Regions
             THEN [savedstates |-> saved, panicked |-> TRUE]
             ELSE LoadStateUntilMalformed(Tail(lines),
                     [k \in DOMAIN saved \cup {<<line[1], line[2]>>} |->
                         IF k = <<line[1], line[2]>>
                         THEN NewStateWithTag(line[3], now)
                         ELSE saved[k]])

\* Reaper.LoadState, the loop over the lines: a line of another length is
\* skipped; a region outside config.AWS.Regions has no inner map, and the
\* assignment panics
RECURSIVE LoadState(_, _)
LoadState(lines, saved) ==
    IF Len(lines) = 0 THEN [savedstates |-> saved, panicked |-> FALSE]
    ELSE LET line == Split(Head(lines), ",")
         IN  IF Len(line) # 3 THEN LoadState(Tail(lines), saved)
             ELSE IF line[1] \notin Regions
             THEN [savedstates |-> saved, panicked |-> TRUE]
             ELSE LoadState(Tail(lines),
                     [k \in DOMAIN saved \cup {<<line[1], line[2]>>} |->
                         IF k = <<line[1], line[2]>>
                         THEN NewStateWithTag(line[3], now)
                         ELSE saved[k]])

\* main and Ready, then Reaper.Start up to "go r.Run()"
Start ==
    /\ ~ started
    /\ started' = TRUE
    /\ loadDone' = FALSE
    /\ reapables' = <<>>
    /\ savedstates' = <<>>
    /\ pc' = "idle"
    /\ Fixed
    /\ UNCHANGED <<stateTag, now, stateFile, dependency, isInCloudformation,
                   instancesInASGs, owned, unowned, cycle, pending, lastDispatch, acted>>

\* Reaper.Start after "go r.Run()": the first run is already free to go
StartLoadState ==
    /\ started
    /\ ~ loadDone
    /\ loadDone' = TRUE
    /\ IF config.LoadFromStateFile
       THEN LET loaded == LoadState(stateFile, <<>>)
            IN  /\ savedstates' = loaded.savedstates
                /\ started' = ~ loaded.panicked
                /\ pending' = IF loaded.panicked THEN <<>> ELSE pending
                /\ pc' = IF loaded.panicked THEN "idle" ELSE pc
       ELSE UNCHANGED <<savedstates, started, pending, pc>>
    /\ Fixed
    /\ UNCHANGED <<stateTag, now, stateFile, reapables, dependency, isInCloudformation,
                   instancesInASGs, owned, unowned, cycle, lastDispatch, acted>>

\* Reaper.Stop, and the end of the process
Stop ==
    /\ started
    /\ loadDone
    /\ pc = "idle"
    /\ started' = FALSE
    /\ pending' = <<>>
    /\ Fixed
    /\ UNCHANGED <<stateTag, now, loadDone, savedstates, stateFile, reapables, pc,
                   dependency, isInCloudformation, instancesInASGs, owned, unowned,
                   cycle, lastDispatch, acted>>

(***************************************************************************)
(* Terminate, ForceStop and Stop by region and id.  What is kept of a call *)
(* is the error it returned and the requests it sent to the provider, each *)
(* with the provider's answer; what the provider makes of a request shows  *)
(* in later snapshots and is not the handler's doing.                      *)
(***************************************************************************)
NoError == "nil"
NotFound == "NotFound"
ProviderError == "ProviderError"

NoCall == [op |-> "none", key |-> <<>>, err |-> NoError, requests |-> <<>>]

\* reapables.Get
Get(registry, k) ==
    IF k \in DOMAIN registry
    THEN [reapable |-> registry[k], err |-> NoError]
    ELSE [reapable |-> NoCall, err |-> NotFound]

\* AutoScalingGroup.Terminate, ForceStop and Stop: the request to the provider
Mutation(op) ==
    CASE op = "Terminate" -> "DeleteAutoScalingGroup"
      [] op = "Stop" -> "UpdateAutoScalingGroup to size 0"
      [] OTHER -> "ForceStop"

\* A handler that sends its request whether the lookup failed or not.
CallUnchecked(op, k, answer) ==
    [op |-> op, key |-> k, err |-> answer,
     requests |-> <<[request |-> Mutation(op), region |-> k[1], id |-> k[2],
                     answer |-> answer]>>]

\* Terminate, ForceStop, Stop: the body they have in common
Call(op, k, answer) ==
    LET got == Get(reapables, k)
    IN  IF got.err # NoError
        THEN [op |-> op, key |-> k, err |-> got.err, requests |-> <<>>]
        ELSE [op |-> op, key |-> k, err |-> answer,
              requests |-> <<[request |-> Mutation(op),
                              region |-> cloud[got.reapable.res].region,
                              id |-> cloud[got.reapable.res].id,
                              answer |-> answer]>>]

\* The keys the handlers are called with, and the answers of the provider.
CallKeys == {<<East, Asg1>>, <<East, WebBlue>>, <<East, I123>>}
Answers == {NoError, ProviderError}

\* What a call by region and id leaves alone in the process.
Unreaped ==
    UNCHANGED <<config, stateTag, now, started, loadDone, savedstates,
                stateFile, reapables, pc, dependency, isInCloudformation,
                instancesInASGs, owned, unowned, cycle, pending, lastDispatch, acted,
                starter, cronOn, runs, detached, failing, writable, link,
                streams, stage, posted, schedule>>

Untold == Unreaped /\ UNCHANGED <<cloud, gone>>

Terminate ==
    /\ started
    /\ \E k \in CallKeys, answer \in Answers : api' = Call("Terminate", k, answer)
    /\ Untold

ForceStop ==
    /\ started
    /\ \E k \in CallKeys, answer \in Answers : api' = Call("ForceStop", k, answer)
    /\ Untold

\* Stop by region and id
StopReapable ==
    /\ started
    /\ \E k \in CallKeys, answer \in Answers : api' = Call("Stop", k, answer)
    /\ Untold

\* AutoScalingGroup.Whitelist on the owner's whitelist action: the whitelist
\* tag is set to "true" on a resource of the registry
Whitelist ==
    /\ started
    /\ \E k \in DOMAIN reapables :
          LET h == reapables[k].res
          IN  /\ ~ Tagged(cloud[h], config.WhitelistTag)
              /\ cloud' = [cloud EXCEPT ![h].tags =
                              [t \in DOMAIN @ \cup {config.WhitelistTag} |->
                                  IF t = config.WhitelistTag THEN "true" ELSE @[t]]]
    /\ Unreaped
    /\ UNCHANGED <<api, gone>>

\* The provider deletes a resource: AllAutoScalingGroups and its siblings
\* yield it no longer
Vanish ==
    /\ started
    /\ \E h \in DOMAIN cloud \ gone : gone' = gone \cup {h}
    /\ Unreaped
    /\ UNCHANGED <<cloud, api>>

(***************************************************************************)
(* The goroutines of a process: Reaper.Start, the Run that Start launches, *)
(* the Runs that r.Cron launches, and the goroutines that reap detaches.   *)
(* What a Run does to the resources is left to the actions above.          *)
(***************************************************************************)
\* What the goroutines leave alone when only their positions are followed.
Positions ==
    UNCHANGED <<config, cloud, stateTag, now, started, loadDone, savedstates,
                stateFile, reapables, pc, dependency, isInCloudformation,
                instancesInASGs, owned, unowned, cycle, pending, lastDispatch, acted,
                api, gone, failing, writable, link, streams, stage, posted>>

\* The Run goroutines are counted up to MaxRuns, the one of Start among them.
Room ==
    Len(runs) + (IF starter \in {"new", "scheduled"} THEN 1 ELSE 0) < MaxRuns

\* Reaper.Start: r.Cron.Schedule and r.Cron.Start
StartCron ==
    /\ starter = "new"
    /\ starter' = "scheduled"
    /\ cronOn' = TRUE
    /\ UNCHANGED <<runs, detached, schedule>>
    /\ Positions

\* Reaper.Start: GetPrices has returned, "go r.Run()"
GoRun ==
    /\ starter = "scheduled"
    /\ starter' = "run"
    /\ runs' = Append(runs, [by |-> "Start", at |-> "new"])
    /\ UNCHANGED <<cronOn, detached, schedule>>
    /\ Positions

\* Reaper.Start: LoadState, and the return
StartReturns ==
    /\ starter = "run"
    /\ starter' = "returned"
    /\ UNCHANGED <<cronOn, runs, detached, schedule>>
    /\ Positions

\* r.Cron, an interval after the last time: the job is run in a goroutine of
\* its own
CronRun ==
    /\ cronOn
    /\ Room
    /\ runs' = Append(runs, [by |-> "Cron", at |-> "new"])
    /\ UNCHANGED <<starter, cronOn, detached, schedule>>
    /\ Positions

\* Reaper.Stop: r.Cron.Stop, and nothing for the crons that Run has made
CronStop ==
    /\ starter = "returned"
    /\ cronOn
    /\ cronOn' = FALSE
    /\ UNCHANGED <<starter, runs, detached, schedule>>
    /\ Positions

\* Scheduling.Enabled of a resource: it carries the tag of its two cron
\* strings
SchedulingEnabled(a) == Tagged(a, ScalerTag)

\* An entry of a cron: the function and the resource it is bound to
Entry(func, of) == [func |-> func, of |-> of]

\* allReapables: ScaleDown and ScaleUp of each autoscaling group and each
\* instance with Scheduling.Enabled, in the order of the two loops
ScaleEntries ==
    LET found == SelectSeq(HandlesOf(AutoScalingGroup) \o HandlesOf(Instance),
                           LAMBDA h : SchedulingEnabled(cloud[h]))
    IN  [j \in 1..(2 * Len(found)) |->
            Entry(IF j % 2 = 1 THEN "ScaleDown" ELSE "ScaleUp",
                  Key(cloud[found[(j + 1) \div 2]]))]

\* Reaper.Run before reap in the Run goroutine r: "schedule = cron.New()",
\* AddFunc of GetPrices and schedule.Start; the cron of the Run before stays
\* as it is
RunSchedule(r) ==
    /\ runs[r].at = "new"
    /\ runs' = [runs EXCEPT ![r].at = "reap"]
    /\ schedule' = Append(schedule,
                          [running |-> TRUE, entries |-> <<Entry("GetPrices", <<>>)>>])
    /\ UNCHANGED <<starter, cronOn, detached>>
    /\ Positions

\* Reaper.reap in the Run goroutine r: allReapables adds the entries of the
\* resources to the cron that the package variable points to, and reap
\* returns with its two goroutines detached
RunReap(r) ==
    /\ runs[r].at = "reap"
    /\ runs' = [runs EXCEPT ![r].at = "save"]
    /\ detached' = detached \cup {[run |-> r, work |-> "events"],
                                   [run |-> r, work |-> "statistics"]}
    /\ schedule' = [schedule EXCEPT ![Len(schedule)].entries = @ \o ScaleEntries]
    /\ UNCHANGED <<starter, cronOn>>
    /\ Positions

\* A Run that goes on to SaveState when the goroutines of its reap have
\* returned.
RunSaveWaiting(r) ==
    /\ runs[r].at = "save"
    /\ \A d \in detached : d.run # r
    /\ runs' = [runs EXCEPT ![r].at = "done"]
    /\ UNCHANGED <<starter, cronOn, detached, schedule>>
    /\ Positions

\* Reaper.Run after reap in the Run goroutine r: SaveState, and the return
RunSave(r) ==
    /\ runs[r].at = "save"
    /\ runs' = [runs EXCEPT ![r].at = "done"]
    /\ UNCHANGED <<starter, cronOn, detached, schedule>>
    /\ Positions

\* A detached goroutine of reap returns: its last event or statistic is out
DetachedReturns ==
    /\ \E d \in detached : detached' = detached \ {d}
    /\ UNCHANGED <<starter, cronOn, runs, schedule>>
    /\ Positions

RunGoesOn == \E r \in 1..Len(runs) : RunSchedule(r) \/ RunReap(r) \/ RunSave(r)

(***************************************************************************)
(* The links of an event: a job for a region and an id, its token, and the *)
(* URL that carries the name of the action and the token.                  *)
(***************************************************************************)
NoLink == [kind |-> "none", host |-> <<>>, action |-> <<>>, token |-> <<>>]

\* time.Duration.String for one, three and seven days
DurationString(hours) ==
    CASE hours = 24 -> <<"24h0m0s">>
      [] hours = 72 -> <<"72h0m0s">>
      [] OTHER -> <<"168h0m0s">>

\* url.QueryEscape, piece by piece: letters, digits, "-", "_" and "." stay,
\* the other characters become their code
Escaped(piece) ==
    CASE piece = " " -> "+"
      [] piece = "=" -> "%3D"
      [] piece = "%3D" -> "%253D"
      [] piece = "/" -> "%2F"
      [] piece = "%2F" -> "%252F"
      [] OTHER -> piece

QueryEscape(text) == [j \in DOMAIN text |-> Escaped(text[j])]

\* token.NewTerminateJob and its siblings
NewJob(kind, region, id, parameters) ==
    [kind |-> kind, region |-> region, id |-> id, parameters |-> parameters]

\* token.Tokenize: the job sealed with the secret, as opaque text
Tokenize(secret, job) == [secret |-> secret, job |-> job]

\* makeURL: action and token are escaped, and escaped once more by
\* url.Values.Encode; the host gets a "/" when it does not end in one
makeURL(host, action, token) ==
    [host |-> IF host[Len(host)] = "/" THEN host \o <<"?">> ELSE host \o <<"/", "?">>,
     action |-> QueryEscape(QueryEscape(action)),
     token |-> [text |-> token, escaped |-> 2]]

\* The link with the kind of job that its token carries.
Linked(job, url) ==
    [kind |-> job.kind, host |-> url.host, action |-> url.action, token |-> url.token]

\* What building a link leaves alone.
Unlinked ==
    UNCHANGED <<config, cloud, stateTag, now, started, loadDone, savedstates,
                stateFile, reapables, pc, dependency, isInCloudformation,
                instancesInASGs, owned, unowned, cycle, pending, lastDispatch, acted,
                api, gone, starter, cronOn, runs, detached, failing, writable,
                streams, stage, posted, schedule>>

Secrets == {"secret", "other"}
Hosts ==
    {<<"https://reaper.example.com">>, <<"https://reaper.example.com", "/">>,
     <<"http://localhost:8000">>}
Schedules == {<<"0 19 * * 1-5", "0 7 * * 1-5">>, <<"0 0 * * 6", "0 0 * * 1">>}
Durations == {24, 72, 168}

makeScheduleLink ==
    /\ \E k \in CallKeys, tokenSecret \in Secrets, apiURL \in Hosts, s \in Schedules :
          LET job == NewJob("schedule", k[1], k[2], s)
          IN  link' = Linked(job, makeURL(apiURL, <<"schedule">>, Tokenize(tokenSecret, job)))
    /\ Unlinked

makeTerminateLink ==
    /\ \E k \in CallKeys, tokenSecret \in Secrets, apiURL \in Hosts :
          LET job == NewJob("terminate", k[1], k[2], <<>>)
          IN  link' = Linked(job, makeURL(apiURL, <<"terminate">>, Tokenize(tokenSecret, job)))
    /\ Unlinked

makeIgnoreLink ==
    /\ \E k \in CallKeys, tokenSecret \in Secrets, apiURL \in Hosts, duration \in Durations :
          LET job == NewJob("delay", k[1], k[2], <<duration>>)
          IN  link' = Linked(job, makeURL(apiURL, <<"delay", "_">> \o DurationString(duration),
                                          Tokenize(tokenSecret, job)))
    /\ Unlinked

makeWhitelistLink ==
    /\ \E k \in CallKeys, tokenSecret \in Secrets, apiURL \in Hosts :
          LET job == NewJob("whitelist", k[1], k[2], <<>>)
          IN  link' = Linked(job, makeURL(apiURL, <<"whitelist">>, Tokenize(tokenSecret, job)))
    /\ Unlinked

makeStopLink ==
    /\ \E k \in CallKeys, tokenSecret \in Secrets, apiURL \in Hosts :
          LET job == NewJob("stop", k[1], k[2], <<>>)
          IN  link' = Linked(job, makeURL(apiURL, <<"stop">>, Tokenize(tokenSecret, job)))
    /\ Unlinked

makeForceStopLink ==
    /\ \E k \in CallKeys, tokenSecret \in Secrets, apiURL \in Hosts :
          LET job == NewJob("forcestop", k[1], k[2], <<>>)
          IN  link' = Linked(job, makeURL(apiURL, <<"stop">>, Tokenize(tokenSecret, job)))
    /\ Unlinked

(***************************************************************************)
(* The producers of allReapables, one for each kind: a goroutine that      *)
(* ranges over the snapshots of the provider, sends each on a channel      *)
(* without buffer, starts the goroutine of the total counts and closes the *)
(* channel; and the five loops of allReapables that receive.               *)
(***************************************************************************)
NoStream ==
    [at |-> "none", next |-> 1, received |-> <<>>, closed |-> 0,
     sentOnClosed |-> FALSE, totals |-> "none"]

\* allReapables: the loops in their order
StreamOrder == <<Cloudformation, AutoScalingGroup, Instance, SecurityGroup, Volume>>

\* What the streams leave alone.
Unstreamed ==
    UNCHANGED <<config, cloud, stateTag, now, started, loadDone, savedstates,
                stateFile, reapables, pc, dependency, isInCloudformation,
                instancesInASGs, owned, unowned, cycle, pending, lastDispatch, acted,
                api, gone, starter, cronOn, runs, detached, failing, writable, link,
                schedule>>

\* The snapshots of a kind that the provider lists.
Found(kind) == {HandlesOf(kind)[j] : j \in 1..Len(HandlesOf(kind))}

\* regionSums of a producer: the regions of the snapshots it has sent
RegionSums(kind) ==
    [r \in {cloud[h].region : h \in Found(kind)} |->
        Cardinality({h \in Found(kind) : cloud[h].region = r})]

\* asgSizeSums and volumeSizeSums: region -> (size -> count)
SizeSums(kind) ==
    [r \in DOMAIN RegionSums(kind) |->
        [s \in {cloud[h].size : h \in {x \in Found(kind) : cloud[x].region = r}} |->
            Cardinality({h \in Found(kind) :
                            cloud[h].region = r /\ cloud[h].size = s})]]

Statistic(name, region, detail, value) ==
    [name |-> name, region |-> region, detail |-> detail, value |-> value]

\* The bag that holds each statistic of a set a number of times.
Times(stats, n) == [s \in stats |-> n]

\* getSecurityGroups and getCloudformations, the goroutine of the totals: one
\* count for each region of regionSums
RegionTotals(name, kind) ==
    Times({Statistic(name, r, <<>>, RegionSums(kind)[r]) : r \in DOMAIN RegionSums(kind)}, 1)

\* getVolumes, and getInstances with one instance type: one count for each
\* region and size
SizeTotals(name, kind) ==
    LET pairs == UNION {{<<r, s>> : s \in DOMAIN SizeSums(kind)[r]} :
                           r \in DOMAIN SizeSums(kind)}
    IN  Times({Statistic(name, p[1], <<p[2]>>, SizeSums(kind)[p[1]][p[2]]) : p \in pairs}, 1)

\* getAutoScalingGroups, the goroutine of the totals: for each region of
\* asgSizeSums, the counts of its sizes and then the loop over regionSums
AsgTotals ==
    SizeTotals("reaper.asgs.asgsizes", AutoScalingGroup)
       (+) Times({Statistic("reaper.asgs.total", r, <<>>, RegionSums(AutoScalingGroup)[r]) :
                     r \in DOMAIN RegionSums(AutoScalingGroup)},
                 Cardinality(DOMAIN SizeSums(AutoScalingGroup)))

Totals(kind) ==
    CASE kind = SecurityGroup -> RegionTotals("reaper.securitygroups.total", kind)
      [] kind = Cloudformation -> RegionTotals("reaper.cloudformations.total", kind)
      [] kind = AutoScalingGroup -> AsgTotals
      [] kind = Volume -> SizeTotals("reaper.volumes.total", kind)
      [] OTHER -> SizeTotals("reaper.instances.total", kind)

\* allReapables: "range getX()" calls getX, which makes the channel and starts
\* the producer
GetStream(kind) ==
    /\ stage <= Len(StreamOrder)
    /\ StreamOrder[stage] = kind
    /\ streams[kind].at = "none"
    /\ streams' = [streams EXCEPT ![kind].at = "ranging"]
    /\ UNCHANGED <<stage, posted>>
    /\ Unstreamed

\* "ch <- x" in the producer and the receive of the loop of allReapables: the
\* channel has no buffer, the two meet
Forward(kind) ==
    /\ stage <= Len(StreamOrder)
    /\ StreamOrder[stage] = kind
    /\ streams[kind].at = "ranging"
    /\ streams[kind].next <= Len(HandlesOf(kind))
    /\ streams' = [streams EXCEPT
                      ![kind].received = Append(@, HandlesOf(kind)[streams[kind].next]),
                      ![kind].next = @ + 1,
                      ![kind].sentOnClosed = @ \/ streams[kind].closed > 0]
    /\ UNCHANGED <<stage, posted>>
    /\ Unstreamed

\* A producer that closes its channel when one snapshot is still to be sent.
CloseStreamEarly(kind) ==
    /\ streams[kind].at = "ranging"
    /\ streams[kind].next >= Len(HandlesOf(kind))
    /\ streams' = [streams EXCEPT
                      ![kind].at = IF streams[kind].next > Len(HandlesOf(kind))
                                   THEN "closed" ELSE @,
                      ![kind].closed = @ + 1,
                      ![kind].totals = "due"]
    /\ UNCHANGED <<stage, posted>>
    /\ Unstreamed

\* The producer after its loop: "go func" for the totals, and close(ch)
CloseStream(kind) ==
    /\ streams[kind].at = "ranging"
    /\ streams[kind].next > Len(HandlesOf(kind))
    /\ streams' = [streams EXCEPT ![kind].at = "closed",
                                  ![kind].closed = @ + 1,
                                  ![kind].totals = "due"]
    /\ UNCHANGED <<stage, posted>>
    /\ Unstreamed

\* The goroutine of the totals of a producer
PostTotals(kind) ==
    /\ streams[kind].totals = "due"
    /\ streams' = [streams EXCEPT ![kind].totals = "posted"]
    /\ posted' = posted (+) Totals(kind)
    /\ UNCHANGED stage
    /\ Unstreamed

\* The loop of allReapables ends when its channel is closed and empty
Drained(kind) ==
    /\ stage <= Len(StreamOrder)
    /\ StreamOrder[stage] = kind
    /\ streams[kind].closed > 0
    /\ streams[kind].at = "closed"
    /\ stage' = stage + 1
    /\ UNCHANGED <<streams, posted>>
    /\ Unstreamed

(***************************************************************************)
(* The specifications.                                                     *)
(***************************************************************************)
Quiet ==
    /\ now = 0
    /\ started = FALSE
    /\ loadDone = FALSE
    /\ savedstates = <<>>
    /\ reapables = <<>>
    /\ pc = "idle"
    /\ dependency = {}
    /\ isInCloudformation = {}
    /\ instancesInASGs = {}
    /\ owned = <<>>
    /\ unowned = <<>>
    /\ cycle = NoCycle
    /\ pending = <<>>
    /\ lastDispatch = NoDispatch
    /\ acted = {}
    /\ api = NoCall
    /\ gone = {}
    /\ starter = "new"
    /\ cronOn = FALSE
    /\ runs = <<>>
    /\ detached = {}
    /\ link = NoLink
    /\ streams = [k \in Kinds |-> NoStream]
    /\ stage = 1
    /\ posted = EmptyBag
    /\ schedule = <<>>

\* Every dispatch returns nil and the state file can be written.
Sound ==
    /\ failing = {}
    /\ writable = TRUE

\* Every arrangement of owners, whitelist tags, references and filter groups
\* over one resource of each kind; nothing saved yet.
InitCycle ==
    /\ cloud \in {World(o, wl, d) :
                     o \in OwnerProfiles, wl \in WhitelistSets, d \in DependencyProfiles}
    /\ config \in {Config(g, FALSE, TRUE) : g \in FilterProfiles}
                   \cup {Disable(Config(AllKinds(NoGroups), FALSE, TRUE), k) :
                            k \in DisabledSets}
    /\ stateTag = [h \in DOMAIN cloud |-> NoTag]
    /\ stateFile = <<>>
    /\ Quiet
    /\ Sound

\* One unowned group under the name it was given.
LifeWorld(name) ==
    [h \in {"asg"} |->
        [Resource(AutoScalingGroup, name, name, TagsOf(NoOwner, FALSE, "")) EXCEPT !.size = 2]]

\* The line of the state file for an id and a state.
Line(id, s) == East \o <<",">> \o id \o <<",">> \o String(s)

\* A state file that was edited by hand: a line cut after the id, the line of
\* the group, an empty line, the line of an instance, a line with a field
\* too many.
EditedFile(name) ==
    <<East \o <<",">> \o name,
      Line(name, NewStateWithUntilAndState(First, 0, 1)),
      <<>>,
      Line(I123, NewStateWithUntilAndState(Second, 0, 2)),
      Line(name, NewStateWithUntilAndState(Third, 0, 1)) \o <<",", "x">>>>

\* What an earlier process left behind: nothing, a tag that is no state, a
\* tag of the third state next to a file written when the state was the first,
\* or a file edited by hand.
Legacies(name) ==
    {[tag |-> NoTag, file |-> <<>>],
     [tag |-> <<"garbage">>, file |-> <<>>],
     [tag |-> String(NewStateWithUntilAndState(Third, 0, 1)),
      file |-> <<Line(name, NewStateWithUntilAndState(First, 0, 1))>>],
     [tag |-> NoTag, file |-> EditedFile(name)]}

\* The group of the scenarios, and a group with a comma in its name.
Scenarios ==
    {[name |-> Asg1, legacy |-> l, load |-> b] : l \in Legacies(Asg1), b \in BOOLEAN}
        \cup {[name |-> WebBlue, legacy |-> l, load |-> TRUE] :
                 l \in {x \in Legacies(WebBlue) : x.file # <<>>}}

Init ==
    /\ \E s \in Scenarios :
          /\ cloud = LifeWorld(s.name)
          /\ config = Config(AllKinds(NoGroups), s.load, TRUE)
          /\ stateTag = [h \in DOMAIN cloud |-> s.legacy.tag]
          /\ stateFile = s.legacy.file
    /\ Quiet
    /\ Sound

NextCycle ==
    \/ Start
    \/ StartLoadState
    \/ RunAllReapables
    \/ ReapApplyFilters
    \/ ReapFiltered
    \/ RunSaveState
    \/ Dispatch

Next ==
    \/ NextCycle
    \/ Tick
    \/ IgnoreAction
    \/ Stop

\* The lifecycle of a resource over many cycles, restarts included.
Spec == Init /\ [][Next]_vars

\* One process, any number of cycles at one time, over every arrangement.
SpecCycle == InitCycle /\ [][NextCycle]_vars

NextCall ==
    \/ NextCycle
    \/ Terminate
    \/ ForceStop
    \/ StopReapable
    \/ Whitelist
    \/ Vanish

\* The calls by region and id next to the cycles of a process.
SpecCall == Init /\ [][NextCall]_vars

\* The group with its two cron strings in the tag of the scaler.
ScaledWorld(name) ==
    [h \in {"asg"} |->
        [LifeWorld(name)[h] EXCEPT
            !.tags = [k \in {ScalerTag} |-> "0 19 * * 1-5|0 7 * * 1-5"]]]

InitRuns ==
    /\ cloud = ScaledWorld(Asg1)
    /\ config = Config(AllKinds(NoGroups), FALSE, TRUE)
    /\ stateTag = [h \in DOMAIN cloud |-> NoTag]
    /\ stateFile = <<>>
    /\ Quiet
    /\ Sound

NextRuns ==
    \/ StartCron
    \/ GoRun
    \/ StartReturns
    \/ CronRun
    \/ CronStop
    \/ RunGoesOn
    \/ DetachedReturns

\* The goroutines of one process.
SpecRuns == InitRuns /\ [][NextRuns]_vars

NextLink ==
    \/ makeScheduleLink
    \/ makeTerminateLink
    \/ makeIgnoreLink
    \/ makeWhitelistLink
    \/ makeStopLink
    \/ makeForceStopLink

\* The links that are built for the resources of a process.
SpecLink == InitRuns /\ [][NextLink]_vars

\* The provider lists up to two stacks, two groups and two security groups,
\* the second of each in a region of its own or in the region of the first.
StreamWorld(present, second) ==
    [h \in present |->
        LET kind == CASE h \in {"cf", "cf2"} -> Cloudformation
                      [] h \in {"asg", "asg2"} -> AutoScalingGroup
                      [] h \in {"sg", "sg2"} -> SecurityGroup
                      [] h = "i" -> Instance
                      [] OTHER -> Volume
        IN  [Resource(kind, <<h>>, <<h>>, TagsOf(NoOwner, FALSE, ""))
                EXCEPT !.region = IF h \in {"cf2", "asg2", "sg2"} THEN second ELSE East,
                       !.size = IF h = "asg2" THEN 2 ELSE 1]]

StreamWorlds ==
    {StreamWorld(p, r) :
        p \in { {}, {"cf", "asg", "i", "sg", "v"}, {"asg", "asg2", "i"},
                {"cf", "cf2", "asg", "asg2", "i", "sg", "sg2", "v"} },
        r \in Regions}

InitStream ==
    /\ cloud \in StreamWorlds
    /\ config = Config(AllKinds(NoGroups), FALSE, TRUE)
    /\ stateTag = [h \in DOMAIN cloud |-> NoTag]
    /\ stateFile = <<>>
    /\ Quiet
    /\ Sound

NextStream ==
    \E kind \in Kinds :
       \/ GetStream(kind)
       \/ Forward(kind)
       \/ CloseStream(kind)
       \/ PostTotals(kind)
       \/ Drained(kind)

\* One call of allReapables, its producers and their streams.
SpecStream == InitStream /\ [][NextStream]_vars

\* What the stack declares, the members of the group, the security groups of
\* the instance, the name of the security group, and the resources that carry
\* the tag of a stack.
InferProfiles ==
    [declares : { {}, {Asg1}, {Sg1}, {SgName}, {Vol1, I123} },
     members : { {}, {I123} },
     sgRef : { {}, {<<Sg1, SgName>>} },
     sgName : {SgName, Asg1, I123},
     tagged : { {}, {"asg"}, {"i", "sg", "v"} }]

InferWorld(p) ==
    LET w == World([cf |-> Bob, asg |-> Alice, i |-> Alice, sg |-> NoOwner, v |-> NoOwner],
                   {},
                   [declares |-> p.declares, members |-> p.members, sgRef |-> p.sgRef,
                    attached |-> FALSE])
    IN  [h \in DOMAIN w |->
            [w[h] EXCEPT
               !.name = IF h = "sg" THEN p.sgName ELSE @,
               !.tags = IF h \in p.tagged
                        THEN [k \in DOMAIN w[h].tags \cup {StackTag} |->
                                 IF k = StackTag THEN "stack-1" ELSE w[h].tags[k]]
                        ELSE @]]

InitInfer ==
    /\ cloud \in {InferWorld(p) : p \in InferProfiles}
    /\ config \in {Config(AllKinds(NoGroups), FALSE, TRUE),
                    Disable(Config(AllKinds(NoGroups), FALSE, TRUE),
                            {Cloudformation, AutoScalingGroup})}
    /\ stateTag = [h \in DOMAIN cloud |-> NoTag]
    /\ stateFile = <<>>
    /\ Quiet
    /\ Sound

\* The cycles of a process over stacks, groups and security groups whose
\* names and ids meet.
SpecInfer == InitInfer /\ [][NextCycle]_vars

\* A line of the state file for a region that is not in config.AWS.Regions.
ElsewhereLine(id, s) == <<"eu-west-1">> \o <<",">> \o id \o <<",">> \o String(s)

\* State files with such a line before, after and between the lines of the
\* group and the instance, and one without.
ElsewhereFiles(name) ==
    LET there == ElsewhereLine(name, NewStateWithUntilAndState(Second, 0, 2))
        group == Line(name, NewStateWithUntilAndState(First, 0, 1))
        instance == Line(I123, NewStateWithUntilAndState(Second, 0, 2))
    IN  { <<there>>, <<there, group>>, <<group, there>>, <<group, there, instance>>,
          <<group, instance>>, EditedFile(name) \o <<there, instance>> }

InitLoad ==
    /\ \E name \in {Asg1, WebBlue} :
          /\ cloud = LifeWorld(name)
          /\ stateFile \in ElsewhereFiles(name)
    /\ config \in {Config(AllKinds(NoGroups), TRUE, f) : f \in BOOLEAN}
    /\ stateTag \in {[h \in DOMAIN cloud |-> t] :
                         t \in {NoTag, String(NewStateWithUntilAndState(Third, 0, 1))}}
    /\ Quiet
    /\ Sound

\* The start of a process on a state file that names another region.
SpecLoad == InitLoad /\ [][NextCycle]_vars

\* A state file of an earlier process.
OldFile == <<Line(Asg1, NewStateWithUntilAndState(First, 0, 1))>>

\* The owners and resources whose events fail, whether the state file can be
\* opened, and what it holds at the start.
Faults ==
    { [failing |-> {}, writable |-> TRUE, file |-> OldFile],
      [failing |-> {Alice}, writable |-> TRUE, file |-> <<>>],
      [failing |-> {"v"}, writable |-> FALSE, file |-> OldFile],
      [failing |-> {"sg", Bob}, writable |-> FALSE, file |-> <<>>],
      [failing |-> {Alice, "v", "i"}, writable |-> TRUE, file |-> <<>>] }

InitFaults ==
    /\ cloud \in {World(o, {}, d) :
                     o \in OwnerProfiles,
                     d \in {p \in DependencyProfiles : p.sgRef = {} /\ p.members = {}}}
    /\ config \in {Config(g, FALSE, TRUE) : g \in FilterProfiles}
                   \cup {Config(AllKinds(NoGroups), FALSE, FALSE)}
    /\ stateTag = [h \in DOMAIN cloud |-> NoTag]
    /\ \E f \in Faults :
          /\ failing = f.failing
          /\ writable = f.writable
          /\ stateFile = f.file
    /\ Quiet

\* The cycles of a process whose event dispatch and state file can fail.
SpecFaults == InitFaults /\ [][NextCycle]_vars

(***************************************************************************)
(* The filter engine and the dispatch of a cycle.                          *)
(***************************************************************************)
\* The resources that reap got back from applyFilters in this cycle.
Survivors ==
    {cycle.filteredUnowned[j] : j \in 1..Len(cycle.filteredUnowned)}
        \cup UNION {{cycle.filteredOwned[w][j] : j \in 1..Len(cycle.filteredOwned[w])} :
                    w \in DOMAIN cycle.filteredOwned}

\* C1: after the dependency inference of a cycle, no resource marked as a
\* dependency is in the output of applyFilters, whatever the filter groups,
\* the configuration with no groups at all included.
C1_DependencyNeverFiltered ==
    pc = "reap" => \A o \in Survivors : ~ o.dependency

\* A security group in use by an instance comes out of applyFilters.
C1_DependencyFiltered ==
    /\ pc = "reap"
    /\ \E o \in Survivors : o.dependency /\ cloud[o.res].kind = SecurityGroup

\* C2: a resource that carries the whitelist tag is in no batch event and in
\* no individual event of a cycle, whatever groups it matches and whatever
\* the value of the tag.
C2_WhitelistedNeverDispatched ==
    \A h \in Notified : ~ Tagged(cloud[h], config.WhitelistTag)

\* Events went out in a configuration where everything matches, while a
\* resource with an empty whitelist tag and one with a set tag stayed out.
C2_WhitelistedLeftOut ==
    /\ Notified # {}
    /\ config.FilterGroups = AllKinds(NoGroups)
    /\ \E h \in DOMAIN cloud \ Notified :
          Tagged(cloud[h], config.WhitelistTag) /\ cloud[h].tags[config.WhitelistTag] = ""
    /\ \E h \in DOMAIN cloud \ Notified :
          Tagged(cloud[h], config.WhitelistTag) /\ cloud[h].tags[config.WhitelistTag] = "true"

\* The batch events of the last dispatch that went to an owner.
BatchesOf(w) ==
    {j \in 1..Len(lastDispatch.batches) : lastDispatch.batches[j].owner = w}

\* C3: in a cycle, each owner with two or more resources out of the filter
\* gets exactly one batch event, and each unowned resource out of the filter
\* exactly one individual event, also when another owner has none left and
\* in whatever order the owners are visited.
C3_OneEventEach ==
    /\ \A w \in DOMAIN lastDispatch.filteredOwned :
          Len(lastDispatch.filteredOwned[w]) >= 2 => Cardinality(BatchesOf(w)) = 1
    /\ \A h \in DOMAIN cloud :
          Cardinality({j \in 1..Len(lastDispatch.events) : lastDispatch.events[j] = h}) <= 1

\* An owner with two resources to hear of got no batch event: an owner with
\* none left came first.
C3_BatchSkipped ==
    \E w, x \in DOMAIN lastDispatch.filteredOwned :
        /\ Len(lastDispatch.filteredOwned[w]) >= 2
        /\ Len(lastDispatch.filteredOwned[x]) = 0
        /\ BatchesOf(w) = {}

\* C4: the one resource of an owner that came out of the filter is in no
\* batch event of the cycle; it is moved to the unowned resources and goes out
\* as one individual event.
C4_SingleGoesAlone ==
    \A j \in 1..Len(lastDispatch.singles) :
        /\ \A b \in 1..Len(lastDispatch.batches) :
              \A l \in 1..Len(lastDispatch.batches[b].resources) :
                 lastDispatch.batches[b].resources[l] # lastDispatch.singles[j]
        /\ Cardinality({e \in 1..Len(lastDispatch.events) :
                           lastDispatch.events[e] = lastDispatch.singles[j]}) = 1

\* The one resource of an owner was dropped with the unowned resources when
\* the filter of an unowned group panicked.
C4_SingleDropped ==
    /\ Len(lastDispatch.singles) = 1
    /\ Len(lastDispatch.events) = 0
    /\ config.FilterGroups[AutoScalingGroup] # NoGroups

(***************************************************************************)
(* The lifecycle of a resource.                                            *)
(***************************************************************************)
\* The resources of the registry that the owner has not acted on, before and
\* after a step.
Untouched == (DOMAIN reapables \cap DOMAIN reapables') \ acted'

\* The state that a tag or the third field of a line stands for, where it
\* stands for one.
IsState(tag) == tag # NoTag /\ String(NewStateWithTag(tag, now)) = tag

\* C5: for each resource out of the filter, the reap of the cycle moves a
\* state that is not the final one and whose time is over (now after until) to
\* the next state, with until set to now plus the duration of the new state,
\* and flags the resource as updated; while now is not after until, it leaves
\* the state as it is and flags nothing.
C5_AdvanceWhenDue ==
    [][(pc = "reap" /\ pc' = "save") =>
          \A o \in Survivors :
             LET after == reapables'[KeyOf(o)]
             IN  /\ (o.state.state # Final /\ now > o.state.until) =>
                       /\ after.state.state = NextState(o.state.state)
                       /\ after.state.until = now + StateDuration(after.state.state)
                       /\ after.updated
                 /\ now <= o.state.until =>
                       /\ after.state = o.state
                       /\ ~ after.updated]_vars

\* A cycle has just moved a resource to the second state for its two units.
C5_Advanced ==
    /\ pc = "save"
    /\ \E k \in DOMAIN reapables :
          /\ reapables[k].updated
          /\ reapables[k].state = NewStateWithUntilAndState(Second, now, now + 2)

\* C6: as long as its owner does not act, the state of a resource never
\* moves backward in the order Ignore, First, Second, Third, Final, neither in
\* the registry nor in the tag it is restored from, and a cycle that runs
\* while now is not after until does not change the state.
C6_NeverBackward ==
    [][/\ \A k \in Untouched :
             /\ Rank(reapables'[k].state.state) >= Rank(reapables[k].state.state)
             /\ now <= reapables[k].state.until =>
                   reapables'[k].state.state = reapables[k].state.state
       /\ \A h \in DOMAIN cloud :
             (acted' = {} /\ IsState(stateTag[h]) /\ IsState(stateTag'[h])) =>
                Rank(stateTag'[h][1]) >= Rank(stateTag[h][1])]_vars

\* The tag of a resource in the third state went back to the first state
\* that the state file held.
C6_TagWentBack ==
    /\ acted = {}
    /\ \E h \in DOMAIN cloud :
          /\ stateTag[h] = String(NewStateWithUntilAndState(First, 0, 1))
          /\ savedstates # <<>>

\* C7: once a resource is in the final state, no reap cycle changes its
\* state again.
C7_FinalStays ==
    [][\A k \in Untouched :
          reapables[k].state.state = Final => reapables'[k].state.state = Final]_vars

\* The tag of a resource says the final state, and a cycle has left the
\* resource in the second state.
C7_FinalUndone ==
    /\ acted = {}
    /\ \E k \in DOMAIN reapables : reapables[k].state.state = Second
    /\ \E h \in DOMAIN cloud : IsState(stateTag[h]) /\ stateTag[h][1] = Final

\* C8: a resource ignored until a time stays in the Ignore state through
\* every cycle that runs while now is not after that time, and the first cycle
\* after it moves the resource to the first state.
C8_IgnoreHolds ==
    [][\A k \in DOMAIN reapables \cap DOMAIN reapables' :
          reapables[k].state.state = Ignore =>
             /\ now <= reapables[k].state.until => reapables'[k].state.state = Ignore
             /\ reapables'[k].state.state \in {Ignore, First}]_vars

\* The tag of a resource still says that it is ignored for a time that is
\* not over, and a cycle has left the resource in the second state.
C8_IgnoreCutShort ==
    \E k \in acted \cap DOMAIN reapables :
        /\ reapables[k].state.state = Second
        /\ \E h \in DOMAIN cloud : \E t \in 0..now :
              /\ stateTag[h] = String(SetIgnore(reapables[k].state, 2, t))
              /\ now <= t + 2

\* C9: a resource that is out of the filter in every cycle and whose owner
\* does not act goes from the first state to the second, the third and the
\* final one, whether its state is restored from its tag, from the state file
\* or is the initial one: a cycle that runs when the time of the registered
\* state is over leaves the resource in the next state.
C9_CycleMovesOn ==
    [][(pc = "reap" /\ pc' = "save") =>
          \A k \in Untouched :
             (/\ k \in {KeyOf(o) : o \in Survivors}
              /\ reapables[k].state.state # Final
              /\ now > reapables[k].state.until) =>
                reapables'[k].state.state = NextState(reapables[k].state.state)]_vars

\* A cycle found a resource of the second state in the first state of the
\* state file, and left it in the second state once more.
C9_SecondAgain ==
    /\ pc = "save"
    /\ acted = {}
    /\ \E k \in DOMAIN reapables \cap DOMAIN savedstates :
          /\ savedstates[k].state = First
          /\ reapables[k].state.state = Second
          /\ reapables[k].state.since > savedstates[k].until + 1

\* What LoadState makes of the file that SaveState writes of a registry.
RoundTrip(registry) == LoadState(SaveState(registry), <<>>)

\* C10: the state restored from the string of a state equals that state,
\* through the tag as through the line of the state file, and every
\* resource of the registry is loaded under the region and id it was saved
\* under.
C10_RoundTrip ==
    /\ \A k \in DOMAIN reapables :
          NewStateWithTag(String(reapables[k].state), now) = reapables[k].state
    /\ ~ RoundTrip(reapables).panicked
    /\ DOMAIN RoundTrip(reapables).savedstates = DOMAIN reapables
    /\ \A k \in DOMAIN reapables :
          RoundTrip(reapables).savedstates[k] = reapables[k].state

\* The state file holds the line of a group with a comma in its name, and
\* LoadState gets nothing out of it.
C10_LineLost ==
    /\ DOMAIN reapables = {<<East, WebBlue>>}
    /\ stateFile = SaveState(reapables)
    /\ LoadState(stateFile, <<>>).savedstates = <<>>

(***************************************************************************)
(* The state file and the saved states.                                    *)
(***************************************************************************)
\* The resources that allReapables hands to reap.
Discovered(ow, un) ==
    {un[j] : j \in 1..Len(un)}
        \cup UNION {{ow[w][j] : j \in 1..Len(ow[w])} : w \in DOMAIN ow}

\* The states of the well-formed lines of the state file: what LoadState has
\* made of it, or makes of it as it is now.
SavedLines ==
    IF loadDone THEN savedstates ELSE LoadState(stateFile, <<>>).savedstates

\* C11: with loading from the state file enabled, a resource that a cycle
\* discovers under a region and id of a well-formed line of the file is handed
\* to reap with the state of that line in place of the state of its tag or the
\* initial one, and a resource without a line keeps the state of its tag or
\* the initial one.
C11_SavedStateApplied ==
    [][(pc = "idle" /\ pc' = "filter" /\ config.LoadFromStateFile) =>
          \A o \in Discovered(owned', unowned') :
             /\ KeyOf(o) \in DOMAIN SavedLines => o.state = SavedLines[KeyOf(o)]
             /\ KeyOf(o) \notin DOMAIN SavedLines =>
                   o.state = NewAutoScalingGroup(o.res).state]_vars

\* The first cycle of a process has a resource in hand in the state of its
\* tag, and the line of the resource in the state file is not loaded yet.
C11_SavedStateMissed ==
    /\ pc = "filter"
    /\ config.LoadFromStateFile
    /\ ~ loadDone
    /\ \E o \in Discovered(owned, unowned) :
          /\ KeyOf(o) \in DOMAIN SavedLines
          /\ o.state # SavedLines[KeyOf(o)]
          /\ o.state = NewAutoScalingGroup(o.res).state

\* The lines of a file that have three fields, split.
WellFormed(file) ==
    SelectSeq([i \in 1..Len(file) |-> Split(file[i], ",")], LAMBDA line : Len(line) = 3)

\* C12: LoadState skips every line that has not exactly three fields and
\* loads every line that has, before and after such a line: savedstates holds
\* the keys of the three-field lines and no other, each with the state of its
\* last line, and the process goes on.  (The regions of the three-field lines
\* are configured ones.)
C12_MalformedSkipped ==
    [][(/\ started /\ ~ loadDone /\ loadDone'
        /\ config.LoadFromStateFile
        /\ \A i \in 1..Len(WellFormed(stateFile)) :
              WellFormed(stateFile)[i][1] \in Regions) =>
          LET lines == WellFormed(stateFile)
          IN  /\ started'
              /\ DOMAIN savedstates' = {<<lines[i][1], lines[i][2]>> : i \in 1..Len(lines)}
              /\ \A i \in 1..Len(lines) :
                    (\A j \in (i + 1)..Len(lines) :
                        <<lines[j][1], lines[j][2]>> # <<lines[i][1], lines[i][2]>>) =>
                       savedstates'[<<lines[i][1], lines[i][2]>>]
                          = NewStateWithTag(lines[i][3], now)]_vars

\* The file edited by hand is loaded: the two lines of three fields are in
\* savedstates, the three other lines left nothing.
C12_EditedFileLoaded ==
    /\ started
    /\ loadDone
    /\ stateFile = EditedFile(Asg1)
    /\ Len(WellFormed(stateFile)) = 2
    /\ DOMAIN savedstates = {<<East, Asg1>>, <<East, I123>>}
    /\ savedstates[<<East, I123>>] = NewStateWithUntilAndState(Second, 0, 2)

(***************************************************************************)
(* applyFilters, batch by batch.                                           *)
(***************************************************************************)
Elems(seq) == {seq[j] : j \in 1..Len(seq)}

\* The calls of applyFilters in a cycle: the resources of each owner, then the
\* unowned resources with the owners' single survivors appended.
FilterBatches ==
    LET alone == {w \in DOMAIN owned : Len(applyFilters(owned[w])) = 1}
    IN  {owned[w] : w \in DOMAIN owned}
            \cup {unowned \o Buckets([w \in alone |-> applyFilters(owned[w])])}

\* The filter groups configured for the kind of a resource.
GroupsOf(o) == config.FilterGroups[cloud[o.res].kind]

\* No filter at all is configured for the kind of a resource.
NoFilters(o) == \A n \in DOMAIN GroupsOf(o) : Len(GroupsOf(o)[n]) = 0

\* Evaluating the filters of a batch panics on one of its resources.
Panics(batch) == \E o \in Elems(batch) : Matched(o) = "panic"

\* C13: a resource of a kind with no filter groups, or with groups of no
\* filters only, that is not whitelisted is in the output of each call of
\* applyFilters that it is in the input of.
C13_NoFiltersAllPass ==
    pc = "filter" =>
       \A batch \in FilterBatches : \A o \in Elems(batch) :
          (NoFilters(o) /\ ~ Whitelisted(o)) => o \in Elems(applyFilters(batch))

\* An instance, of a kind without filter groups and not whitelisted, is in a
\* batch next to a group whose filter panics, and is not in the output.
C13_PassingDropped ==
    /\ pc = "filter"
    /\ \E batch \in FilterBatches : \E o \in Elems(batch) :
          /\ cloud[o.res].kind = Instance
          /\ GroupsOf(o) = NoGroups
          /\ ~ Whitelisted(o)
          /\ Panics(batch)
          /\ o \notin Elems(applyFilters(batch))

\* A resource matches every filter of a group.
MatchesAll(o, group) == \A j \in 1..Len(group) : Filter(o, group[j]) = "match"

\* C14: with at least one group of at least one filter configured for its
\* kind, a resource that is not whitelisted is in the output of applyFilters
\* if and only if it matches every filter of at least one group; matching
\* some filters of each group does not do.
C14_SomeGroupInFull ==
    pc = "filter" =>
       \A batch \in FilterBatches : \A o \in Elems(batch) :
          (~ NoFilters(o) /\ ~ Whitelisted(o)) =>
             (o \in Elems(applyFilters(batch))
                 <=> \E n \in DOMAIN GroupsOf(o) : MatchesAll(o, GroupsOf(o)[n]))

\* An instance that carries the owner tag its group asks for is in a batch
\* next to a group whose filter panics, and is not in the output.
C14_MatchingDropped ==
    /\ pc = "filter"
    /\ \E batch \in FilterBatches : \E o \in Elems(batch) :
          /\ cloud[o.res].kind = Instance
          /\ ~ Whitelisted(o)
          /\ "b" \in DOMAIN GroupsOf(o)
          /\ MatchesAll(o, GroupsOf(o)["b"])
          /\ Panics(batch)
          /\ o \notin Elems(applyFilters(batch))

\* C15: when evaluating a filter panics on one resource of a batch, that
\* resource alone counts as not matching: every other resource of the batch
\* that matches and is not whitelisted is in the output of applyFilters.
C15_PanicDropsOne ==
    pc = "filter" =>
       \A batch \in FilterBatches : \A o \in Elems(batch) :
          Matched(o) = "match" => o \in Elems(applyFilters(batch))

\* A batch of two resources, one with a filter that lacks its argument and
\* one that matches its groups and is not whitelisted: the output is empty.
C15_WholeBatchDropped ==
    /\ pc = "filter"
    /\ \E batch \in FilterBatches :
          /\ Len(batch) = 2
          /\ \E o \in Elems(batch) :
                /\ Matched(o) = "panic"
                /\ GroupsOf(o)["bad"] = <<NewFilter("Tagged", <<>>)>>
          /\ \E o \in Elems(batch) : Matched(o) = "match"
          /\ applyFilters(batch) = <<>>

(***************************************************************************)
(* The marks of the inference pass.                                        *)
(***************************************************************************)
\* A stack declares i-123, the group asg-1 has i-123 as a member, and the one
\* filter configured is a size above zero for groups.
StackOfMember ==
    /\ cloud["cf"].resources = {I123}
    /\ cloud["asg"].id = Asg1
    /\ cloud["asg"].instances = {I123}
    /\ \A k \in Kinds : config.Enabled[k]
    /\ DOMAIN config.FilterGroups[AutoScalingGroup] = {"big"}
    /\ \A k \in Kinds \ {AutoScalingGroup} : config.FilterGroups[k] = NoGroups

\* C16: where a stack declares i-123 and the group asg-1 has i-123 as a
\* member, the inference pass leaves the group and the instance both marked
\* as a dependency and as part of a stack, and with a size above zero as the
\* one filter neither of them comes out of applyFilters.
C16_StackMarksGroupAndMember ==
    (pc = "filter" /\ StackOfMember) =>
       \A o \in Discovered(owned, unowned) :
          cloud[o.res].kind \in {AutoScalingGroup, Instance} =>
             /\ o.dependency
             /\ o.isInCloudformation
             /\ \A batch \in FilterBatches : o \notin Elems(applyFilters(batch))

\* The instance has both marks, the group has neither, and the group comes
\* out of applyFilters.
C16_GroupUnmarked ==
    /\ pc = "filter"
    /\ StackOfMember
    /\ \E i, a \in Discovered(owned, unowned) :
          /\ i.res = "i" /\ i.dependency /\ i.isInCloudformation
          /\ a.res = "asg" /\ ~ a.dependency /\ ~ a.isInCloudformation
          /\ \E batch \in FilterBatches : a \in Elems(applyFilters(batch))

\* A discovered instance of the region of a security group has the group
\* among its security groups, by id or by name.
InUse(s) ==
    \E h \in DOMAIN cloud :
       /\ cloud[h].kind = Instance
       /\ cloud[h].region = cloud[s.res].region
       /\ \E sg \in cloud[h].securityGroups :
             sg[1] = cloud[s.res].id \/ sg[2] = cloud[s.res].name

\* C17: after the inference pass, every security group that a discovered
\* instance of its region refers to, by id or by name, is marked as a
\* dependency.
C17_GroupInUseIsDependency ==
    pc = "filter" =>
       \A s \in Discovered(owned, unowned) :
          (cloud[s.res].kind = SecurityGroup /\ InUse(s)) => s.dependency

\* The pass has marked a security group that an instance refers to by its
\* name only, under an id of its own, and that no stack declares.
C17_MarkedByName ==
    /\ pc = "filter"
    /\ \E s \in Discovered(owned, unowned) :
          /\ cloud[s.res].kind = SecurityGroup
          /\ InUse(s)
          /\ s.dependency
          /\ \A h \in DOMAIN cloud : \A sg \in cloud[h].securityGroups :
                sg[1] # cloud[s.res].id
          /\ Key(cloud[s.res]) \notin isInCloudformation

\* A group discovered in the cycle, of the region of an instance, has the
\* instance in its member list.
Member(i) ==
    \E h \in DOMAIN cloud :
       /\ cloud[h].kind = AutoScalingGroup
       /\ cloud[h].region = cloud[i.res].region
       /\ cloud[i.res].id \in cloud[h].instances

\* C18: after the inference pass, every instance whose id is in the member
\* list of a group discovered in the cycle is marked as a dependency and as
\* in a group, and an instance in no member list is not marked as in a group.
C18_MembersMarked ==
    pc = "filter" =>
       \A i \in Discovered(owned, unowned) :
          cloud[i.res].kind = Instance =>
             /\ Member(i) => (i.dependency /\ i.autoScaled)
             /\ ~ Member(i) => ~ i.autoScaled

\* The pass has marked the one member of a group that is itself not
\* reported, and no stack declares the instance.
C18_MemberOfDisabledGroup ==
    /\ pc = "filter"
    /\ ~ config.Enabled[AutoScalingGroup]
    /\ \E i \in Discovered(owned, unowned) :
          /\ cloud[i.res].kind = Instance
          /\ Member(i)
          /\ i.dependency
          /\ i.autoScaled
          /\ ~ i.isInCloudformation

\* The kind of a resource is reported.
Reported(h) == config.Enabled[cloud[h].kind]

\* The marks that the snapshots of the cycle give rise to, whatever kinds are
\* reported: what the stacks declare, the members of the groups, the security
\* groups of the instances.
Declared ==
    UNION {{<<cloud[h].region, p>> : p \in cloud[h].resources} : h \in DOMAIN cloud}
Members ==
    UNION {{<<cloud[h].region, m>> : m \in cloud[h].instances} : h \in DOMAIN cloud}
Referenced ==
    UNION {{<<cloud[h].region, sg[1]>> : sg \in cloud[h].securityGroups}
              \cup {<<cloud[h].region, sg[2]>> : sg \in cloud[h].securityGroups} :
           h \in DOMAIN cloud}

\* C19: no resource of a kind that is disabled in the configuration is in the
\* owned or unowned output of the inference pass, nor out of the filter, in
\* the registry or in an event; the resources of such a kind are enumerated
\* all the same, and their declared resources, members and security groups
\* are in the maps the other kinds take their marks from.
C19_DisabledKindOnlyMarks ==
    /\ pc = "filter" =>
          /\ \A o \in Discovered(owned, unowned) : Reported(o.res)
          /\ Declared \subseteq dependency \cap isInCloudformation
          /\ Members \subseteq dependency \cap instancesInASGs
          /\ Referenced \subseteq dependency
    /\ \A o \in Survivors : Reported(o.res)
    /\ \A k \in DOMAIN reapables : Reported(reapables[k].res)
    /\ \A h \in Notified : Reported(h)

\* Instances are not reported: the pass hands on the security group, marked
\* as a dependency on account of the instance, and hands on no instance.
C19_DisabledInstanceMarks ==
    /\ pc = "filter"
    /\ ~ config.Enabled[Instance]
    /\ \A o \in Discovered(owned, unowned) : cloud[o.res].kind # Instance
    /\ \E s \in Discovered(owned, unowned) :
          cloud[s.res].kind = SecurityGroup /\ InUse(s) /\ s.dependency
    /\ reapables # <<>>

(***************************************************************************)
(* The calls by region and id.                                             *)
(***************************************************************************)
\* C20: Terminate, Stop and ForceStop for a region and id that the registry
\* does not hold return the error of the lookup and send no request for any
\* resource; for an entry that it holds they send the request of their own
\* kind for that resource, once, and return the provider's error if it fails
\* and nil if not.
C20_LookupThenOneMutation ==
    [][api' # api =>
          IF api'.key \notin DOMAIN reapables
          THEN /\ api'.err = NotFound
               /\ api'.requests = <<>>
          ELSE /\ Len(api'.requests) = 1
               /\ api'.requests[1].request = Mutation(api'.op)
               /\ <<api'.requests[1].region, api'.requests[1].id>>
                     = Key(cloud[reapables[api'.key].res])
               /\ api'.err = api'.requests[1].answer
               /\ api'.err \in {NoError, ProviderError}]_vars

\* Stop was called for a group of the registry, sent its one request, and
\* returned the error the provider answered with.
C20_StopFailed ==
    /\ api.op = "Stop"
    /\ api.key \in DOMAIN reapables
    /\ Len(api.requests) = 1
    /\ api.requests[1].request = Mutation("Stop")
    /\ api.err = ProviderError

(***************************************************************************)
(* The registry over the cycles of a process.                              *)
(***************************************************************************)
\* C21: within a process, a key stored in the registry is found by every
\* later lookup, and the lookup returns what was stored last: a step leaves
\* the entry as it is or is the reap of a cycle that stores the key's
\* survivor anew; no cycle removes an entry, also when the resource is
\* listed no longer or is kept out by the filter.
C21_RegistryKeeps ==
    [][(started /\ started') =>
          \A k \in DOMAIN reapables :
             /\ Get(reapables', k).err = NoError
             /\ \/ Get(reapables', k).reapable = reapables[k]
                \/ /\ pc = "reap" /\ pc' = "save"
                   /\ \E o \in Survivors :
                         KeyOf(o) = k /\ Get(reapables', k).reapable = reapInstance(o)]_vars

\* A cycle has run to its reap with no survivor, the group of the registry
\* being gone or whitelisted by then, and the lookup of the group succeeds.
C21_KeptWhenGone ==
    /\ pc = "save"
    /\ Len(pending) = 1
    /\ pending[1].filteredUnowned = <<>>
    /\ \E k \in DOMAIN reapables :
          /\ reapables[k].res \in gone
          /\ Get(reapables, k).err = NoError

(***************************************************************************)
(* The goroutines of a process.                                            *)
(***************************************************************************)
\* The Run goroutines that have not returned.
Running == {r \in 1..Len(runs) : runs[r].at # "done"}

\* C22: at most one Run is executing at any time; r.Cron starts no Run while
\* an earlier one, or the one that Start launched, has not returned.
C22_OneRunAtATime ==
    Cardinality(Running) <= 1

\* The Run that Start launched is still in reap when r.Cron launches one.
C22_TickDuringFirstRun ==
    \E r, t \in Running :
       /\ runs[r].by = "Start" /\ runs[r].at = "reap"
       /\ runs[t].by = "Cron" /\ runs[t].at = "reap"

Among(seq, S) ==
    LET In(x) == x \in S IN SelectSeq(seq, In)

\* C23: an error of a dispatch is logged and ends nothing: the goroutine
\* attempts the batch events and the events of the unowned resources that it
\* attempts when every dispatch returns nil (the batches of the owners in the
\* order of the map up to an empty bucket, and every unowned survivor), and
\* the log holds each attempt that returned an error.
C23_ErrorLoggedOthersAttempted ==
    /\ lastDispatch.events = lastDispatch.filteredUnowned
    /\ \E order \in Orders(DOMAIN lastDispatch.filteredOwned) :
          lastDispatch.batches = BatchEvents(lastDispatch, order)
    /\ lastDispatch.logged =
          Among([j \in 1..Len(lastDispatch.batches) |-> lastDispatch.batches[j].owner],
                failing)
             \o Among(lastDispatch.events, failing)

\* The batch event of an owner and the event of an unowned resource both
\* returned an error, and the event of a later resource was dispatched.
C23_AttemptedAfterErrors ==
    /\ Len(lastDispatch.batches) >= 1
    /\ lastDispatch.batches[1].owner \in failing
    /\ \E j, l \in 1..Len(lastDispatch.events) :
          /\ j < l
          /\ lastDispatch.events[j] \in failing
          /\ lastDispatch.events[l] \notin failing
    /\ Len(lastDispatch.logged) = 2

(***************************************************************************)
(* The state file after a Run.                                             *)
(***************************************************************************)
\* The lines of a file that are the line of the registry entry k.
LinesFor(file, registry, k) ==
    {i \in 1..Len(file) :
        file[i] = k[1] \o <<",">> \o k[2] \o <<",">> \o String(registry[k].state)}

\* C26: with a state file configured, the Run that has reaped goes on to its
\* end, and there the file holds one line region,id,state for each entry of
\* the registry and nothing else, whatever it held before; when the file
\* cannot be opened it is left as it was, and the Run ends all the same.
C26_OneLinePerEntry ==
    /\ []((started /\ pc = "save") => ENABLED RunSaveState)
    /\ [][(pc = "save" /\ pc' = "idle" /\ config.StateFile) =>
             IF writable
             THEN /\ Len(stateFile') = Cardinality(DOMAIN reapables)
                  /\ \A k \in DOMAIN reapables :
                        Cardinality(LinesFor(stateFile', reapables, k)) = 1
             ELSE stateFile' = stateFile]_vars

\* A Run has ended on a file of an earlier process that it could not open.
C26_RunEndedUnwritten ==
    /\ started
    /\ pc = "idle"
    /\ reapables # <<>>
    /\ config.StateFile
    /\ ~ writable
    /\ stateFile = OldFile

(***************************************************************************)
(* The filtered counts.                                                    *)
(***************************************************************************)
\* The survivors of the last dispatched cycle that are of a kind and in a
\* region.
SurvivorsOf(k, r) ==
    LET all == Buckets(lastDispatch.filteredOwned) \o lastDispatch.filteredUnowned
    IN  {j \in 1..Len(all) : cloud[all[j]].kind = k /\ cloud[all[j]].region = r}

\* C28: for each of the five kinds and each region with a survivor of the
\* kind, the cycle posts a filtered count that is the number of the
\* survivors, whether the events were dispatched or returned errors.
C28_FilteredCountOfEveryKind ==
    \A k \in Kinds, r \in Regions :
       SurvivorsOf(k, r) # {} =>
          \E s \in lastDispatch.statistics :
             /\ s.kind = k
             /\ s.region = r
             /\ s.value = Cardinality(SurvivorsOf(k, r))

\* A volume survived and the counts of the cycle are out: the four other
\* kinds have theirs, the volumes have none.
C28_VolumesUncounted ==
    /\ SurvivorsOf(Volume, East) # {}
    /\ lastDispatch.statistics # {}
    /\ \A s \in lastDispatch.statistics : s.kind # Volume
    /\ \A k \in Kinds \ {Volume} :
          SurvivorsOf(k, East) # {} =>
             \E s \in lastDispatch.statistics :
                s.kind = k /\ s.value = Cardinality(SurvivorsOf(k, East))

(***************************************************************************)
(* The links.                                                              *)
(***************************************************************************)
\* C27: the name of the action in the URL tells the kind of the job in the
\* token: two links whose tokens carry jobs of different kinds never carry
\* the same action name.
C27_ActionNamesTheKind ==
    [][(link # NoLink /\ link'.kind # link.kind) => link'.action # link.action]_vars

\* The link of a force-stop job under the action name of the stop links.
C27_ForceStopNamedStop ==
    /\ link.kind = "forcestop"
    /\ link.token.text.job.kind = "forcestop"
    /\ link.action = <<"stop">>

(***************************************************************************)
(* The total counts and the streams of a cycle.                            *)
(***************************************************************************)
\* The name of the total count of the kinds that are counted by region.
TotalName ==
    [k \in {AutoScalingGroup, Cloudformation, SecurityGroup} |->
        CASE k = AutoScalingGroup -> "reaper.asgs.total"
          [] k = Cloudformation -> "reaper.cloudformations.total"
          [] OTHER -> "reaper.securitygroups.total"]

\* The total of a kind is out once for each region with a resource of the
\* kind, with the number of the resources found there.
TotalOncePerRegion(k) ==
    streams[k].totals = "posted" =>
       \A r \in Regions :
          LET n == Cardinality({h \in Found(k) : cloud[h].region = r})
          IN  /\ n > 0 => CopiesIn(Statistic(TotalName[k], r, <<>>, n), posted) = 1
              /\ \A s \in BagToSet(posted) :
                    (s.name = TotalName[k] /\ s.region = r) => (n > 0 /\ s.value = n)

\* C29: the total count of the autoscaling groups is posted once for each
\* region in which a group was found, with the number of the groups found
\* there, for any number of regions; so are the totals of the stacks and of
\* the security groups.
C29_TotalOncePerRegion ==
    \A k \in DOMAIN TotalName : TotalOncePerRegion(k)

\* Groups were found in two regions and the total of each region is out
\* twice, while the totals of the stacks and the security groups of the same
\* two regions are out once.
C29_AsgTotalTwice ==
    /\ \A k \in DOMAIN TotalName : streams[k].totals = "posted"
    /\ \A r \in Regions :
          /\ CopiesIn(Statistic("reaper.asgs.total", r, <<>>, 1), posted) = 2
          /\ CopiesIn(Statistic("reaper.cloudformations.total", r, <<>>, 1), posted) = 1
          /\ CopiesIn(Statistic("reaper.securitygroups.total", r, <<>>, 1), posted) = 1

\* The first n elements of a sequence.
Prefix(seq, n) == SubSeq(seq, 1, n)

\* The stream of a kind has carried every snapshot and is closed.
AllForwarded(k) ==
    /\ streams[k].received = HandlesOf(k)
    /\ streams[k].closed = 1

\* How far the producer of a kind has come.
ProducerRank(k) ==
    streams[k].next + streams[k].closed
       + (CASE streams[k].at = "none" -> 0 [] streams[k].at = "ranging" -> 1 [] OTHER -> 2)
       + (CASE streams[k].totals = "none" -> 0 [] streams[k].totals = "due" -> 1 [] OTHER -> 2)

\* How far the pass and its producers have come.
Measure ==
    stage + ProducerRank(Cloudformation) + ProducerRank(AutoScalingGroup)
          + ProducerRank(Instance) + ProducerRank(SecurityGroup) + ProducerRank(Volume)

\* C30: each producer forwards the snapshots of the provider once and in
\* their order and then closes its stream, once and after the last send;
\* the streams are drained in the order stacks, autoscaling groups,
\* instances, security groups, volumes, and the pass comes to its end: every
\* step brings it further, and it stops only when the five streams have
\* carried everything and are closed.
C30_ForwardedInOrderThenClosed ==
    /\ [](/\ \A k \in Kinds :
               /\ streams[k].received = Prefix(HandlesOf(k), Len(streams[k].received))
               /\ streams[k].closed <= 1
               /\ streams[k].closed = 1 => streams[k].received = HandlesOf(k)
               /\ ~ streams[k].sentOnClosed
          /\ \A j \in 1..Len(StreamOrder) :
               /\ j < stage => AllForwarded(StreamOrder[j])
               /\ j > stage => streams[StreamOrder[j]] = NoStream
          /\ (~ ENABLED NextStream) =>
               /\ stage = Len(StreamOrder) + 1
               /\ \A k \in Kinds : AllForwarded(k) /\ streams[k].totals = "posted")
    /\ [][Measure' > Measure]_vars

\* The pass is at its end; the two groups came through in the order of the
\* provider.
C30_DrainedInOrder ==
    /\ stage = Len(StreamOrder) + 1
    /\ streams[AutoScalingGroup].received = <<"asg", "asg2">>
    /\ streams[Cloudformation].received = <<"cf", "cf2">>
    /\ \A k \in Kinds : streams[k].closed = 1

(***************************************************************************)
(* The marks of the inference pass.                                        *)
(***************************************************************************)
\* C31: after the inference pass every resource that is marked as part of a
\* stack is marked as a dependency, whether the mark of the stack is that of
\* its own tag or that of the list of a stack, by id or by name.
C31_InStackIsDependency ==
    pc = "filter" =>
       \A o \in Discovered(owned, unowned) : o.isInCloudformation => o.dependency

\* The pass has marked a group without the tag of a stack from the list of a
\* stack, and an instance that carries the tag and is in no list.
C31_MarkedByListAndByTag ==
    /\ pc = "filter"
    /\ \E a, i \in Discovered(owned, unowned) :
          /\ cloud[a.res].kind = AutoScalingGroup
          /\ ~ Tagged(cloud[a.res], StackTag)
          /\ a.isInCloudformation /\ a.dependency
          /\ cloud[i.res].kind = Instance
          /\ Tagged(cloud[i.res], StackTag)
          /\ Key(cloud[i.res]) \notin isInCloudformation
          /\ i.isInCloudformation /\ i.dependency

\* A stack of the region of a security group declares the group, by id or by
\* name.
DeclaredByStack(s) ==
    \E h \in DOMAIN cloud :
       /\ cloud[h].kind = Cloudformation
       /\ cloud[h].region = cloud[s.res].region
       /\ {cloud[s.res].id, cloud[s.res].name} \cap cloud[h].resources # {}

\* C34: the inference pass marks a security group as a dependency only when
\* an instance of its region refers to it or a stack of its region declares
\* it: a group without the tag of a stack that is a dependency after the pass
\* is in use or declared.
C34_OnlyInUseOrDeclared ==
    pc = "filter" =>
       \A s \in Discovered(owned, unowned) :
          (/\ cloud[s.res].kind = SecurityGroup
           /\ ~ Tagged(cloud[s.res], StackTag)
           /\ s.dependency)
             => (InUse(s) \/ DeclaredByStack(s))

\* A security group that no instance refers to and no stack declares is a
\* dependency after the pass: its name is the id of the member of a group.
C34_MarkedByMemberId ==
    /\ pc = "filter"
    /\ \E s \in Discovered(owned, unowned) :
          /\ cloud[s.res].kind = SecurityGroup
          /\ ~ Tagged(cloud[s.res], StackTag)
          /\ s.dependency
          /\ ~ InUse(s)
          /\ ~ DeclaredByStack(s)
          /\ <<cloud[s.res].region, cloud[s.res].name>> \in Members

(***************************************************************************)
(* The start of a process: LoadState and the first Run.                    *)
(***************************************************************************)
\* C32: savedstates is loaded before a producer reads it: with loading
\* enabled, no Run starts its discovery before LoadState has returned.
C32_LoadedBeforeDiscovery ==
    [][(pc = "idle" /\ pc' = "filter" /\ config.LoadFromStateFile) => loadDone]_vars

\* The first Run of a process has discovered its resources, the registry is
\* still empty, and the lines of the state file are not in savedstates yet.
C32_DiscoveredBeforeLoad ==
    /\ started
    /\ pc = "filter"
    /\ reapables = <<>>
    /\ config.LoadFromStateFile
    /\ ~ loadDone
    /\ savedstates = <<>>
    /\ WellFormed(stateFile) # <<>>

\* The three-field lines of the state file with a region of config.AWS.Regions.
Loadable(file) ==
    SelectSeq(WellFormed(file), LAMBDA line : line[1] \in Regions)

\* C35: on a file with a three-field line of a region that is not configured
\* LoadState does not end the process, and the lines of the configured
\* regions, before and after that line, are in savedstates when it returns.
C35_ElsewhereLineSurvived ==
    [][(/\ started /\ ~ loadDone /\ loadDone'
        /\ config.LoadFromStateFile
        /\ \E i \in 1..Len(WellFormed(stateFile)) :
              WellFormed(stateFile)[i][1] \notin Regions) =>
          /\ started'
          /\ \A i \in 1..Len(Loadable(stateFile)) :
                <<Loadable(stateFile)[i][1], Loadable(stateFile)[i][2]>>
                   \in DOMAIN savedstates']_vars

\* The process has ended in LoadState on the line of another region, and the
\* line of the instance after it was never read.
C35_EndedOnElsewhereLine ==
    /\ ~ started
    /\ loadDone
    /\ config.LoadFromStateFile
    /\ \E i \in 1..Len(WellFormed(stateFile)) : WellFormed(stateFile)[i][1] \notin Regions
    /\ \E i \in 1..Len(Loadable(stateFile)) :
          /\ Loadable(stateFile)[i][2] = I123
          /\ <<East, I123>> \notin DOMAIN savedstates

(***************************************************************************)
(* The crons of the package variable "schedule".                           *)
(***************************************************************************)
\* The crons that are running.
Active == {j \in DOMAIN schedule : schedule[j].running}

\* How often an entry is held by the running crons.
Registered(entry) ==
    Cardinality({p \in UNION {{<<j, n>> : n \in DOMAIN schedule[j].entries} : j \in Active} :
                    schedule[p[1]].entries[p[2]] = entry})

\* C33: at any time at most one cron that refreshes the prices is running,
\* and ScaleDown and ScaleUp of each resource with Scheduling.Enabled are
\* held by the running crons at most once each, however many Runs there were.
C33_OneScheduleOneEntry ==
    /\ Registered(Entry("GetPrices", <<>>)) <= 1
    /\ \A h \in DOMAIN cloud :
          SchedulingEnabled(cloud[h]) =>
             /\ Registered(Entry("ScaleDown", Key(cloud[h]))) <= 1
             /\ Registered(Entry("ScaleUp", Key(cloud[h]))) <= 1

\* Two Runs have returned, r.Cron is stopped, and two crons are running, each
\* with GetPrices and with ScaleDown and ScaleUp of the group.
C33_TwoCronsAfterTwoRuns ==
    /\ Len(runs) = 2
    /\ \A r \in DOMAIN runs : runs[r].at = "done"
    /\ ~cronOn
    /\ Cardinality(Active) = 2
    /\ Registered(Entry("GetPrices", <<>>)) = 2
    /\ \E h \in DOMAIN cloud :
          /\ SchedulingEnabled(cloud[h])
          /\ Registered(Entry("ScaleDown", Key(cloud[h]))) = 2
          /\ Registered(Entry("ScaleUp", Key(cloud[h]))) = 2

(***************************************************************************)
(* The cycles of a process over the time, with resources of every kind and *)
(* owners of one and of two resources.                                     *)
(***************************************************************************)
InitOwned ==
    /\ cloud \in {World(o, {}, d) :
                     o \in OwnerProfiles,
                     d \in {p \in DependencyProfiles : p.declares = {} /\ p.members = {}}}
    /\ config = Config(AllKinds(NoGroups), FALSE, TRUE)
    /\ stateTag = [h \in DOMAIN cloud |-> NoTag]
    /\ stateFile = <<>>
    /\ Quiet
    /\ Sound

NextOwned ==
    \/ NextCycle
    \/ Tick

SpecOwned == InitOwned /\ [][NextOwned]_vars

\* The resources of the events of a job: those of the batches and those that
\* are sent one by one.
EventResources(job) == Buckets(job.filteredOwned) \o job.filteredUnowned

\* The handles of the resources that the last dispatch has sent.
DispatchedHandles ==
    {lastDispatch.events[j] : j \in 1..Len(lastDispatch.events)}
       \cup UNION {{lastDispatch.batches[j].resources[n] :
                       n \in 1..Len(lastDispatch.batches[j].resources)} :
                      j \in 1..Len(lastDispatch.batches)}

\* C36: from the start of the dispatch goroutine of a cycle on, each resource
\* of its events is in the registry under its region and id, with nothing
\* left of its state to advance at the time of the cycle; and each resource
\* that a dispatch sends is in the registry before the dispatch.
C36_StoredBeforeDispatched ==
    /\ [](\A i \in 1..Len(pending) :
             \A j \in 1..Len(EventResources(pending[i])) :
                LET o == EventResources(pending[i])[j]
                IN  /\ KeyOf(o) \in DOMAIN reapables
                    /\ reapables[KeyOf(o)].res = o.res
                    /\ reapInstance(o) = o)
    /\ [][lastDispatch' # lastDispatch =>
             \A h \in DispatchedHandles' : Key(cloud[h]) \in DOMAIN reapables]_vars

\* A dispatch has sent a batch and single events, and the state of every
\* resource it sent was advanced to the second state in that cycle.
C36_AdvancedAndSent ==
    /\ pending = <<>>
    /\ lastDispatch.batches # <<>>
    /\ lastDispatch.events # <<>>
    /\ \A h \in DispatchedHandles :
          /\ Key(cloud[h]) \in DOMAIN reapables
          /\ reapables[Key(cloud[h])].updated
          /\ reapables[Key(cloud[h])].state.state = Second

====
